---- MODULE Spec2Model ----
(***************************************************************************)
(* Symbol table and name table of the type checker's GlobalState           *)
(* (core/GlobalState.cc).  The GlobalState is one record value `gs`; the   *)
(* string pages live in a separate heap `pages` because pages are shared   *)
(* by pointer.  ENFORCE is modelled as in a debug build: a failed ENFORCE  *)
(* raises, the call returns nothing and the process aborts (pc="aborted"), *)
(* keeping whatever the call had already written.                          *)
(***************************************************************************)
EXTENDS Integers, Sequences, FiniteSets, TLC

VARIABLES gs, pages, pc, last, interned, other

vars == <<gs, pages, pc, last, interned, other>>

(***************************************************************************)
(* Bounds of the model.                                                    *)
(***************************************************************************)
\* no creating intern is attempted once the name array holds MaxNames names
MaxNames == 17
\* largest counter passed to freshNameUnique / lookupNameUnique
MaxNum == 2

(***************************************************************************)
(* Program constants, scaled down so that growth happens in a small model. *)
(***************************************************************************)
PAYLOAD_MAX_NAME_COUNT == 16
STRINGS_PAGE_SIZE == 4

(***************************************************************************)
(* Input domains.                                                          *)
(***************************************************************************)
\* texts are sequences of character codes
\* the texts Names::registerNames interns as constants, in order
BootStrings == << <<3>>, <<4>>, <<5>>, <<6>>, <<7>>, <<8>>, <<9>> >>
\* the name id of the i-th registered text
BootUTF8(i) == 2 * i - 1
\* the texts callers intern: the empty text and two texts whose hash equals
\* that of the first registered text
UserStrings == { <<>>, <<1, 2>>, <<2, 1>> }
UniqueNameKinds == {"MangleRename", "ResolverMissingClass"}
\* (kind, num) pairs of the unique names the calls are tried with: every num
\* for one kind, num 1 for the other
UniqueInputs == {u \in UniqueNameKinds \X (1..MaxNum) : u[1] = "MangleRename" \/ u[2] = 1}

noName == 0
NoView == [page |-> 0, off |-> 0, len |-> 0]

(***************************************************************************)
(* Keys and name records.  The C++ Name is a tagged union; the record has  *)
(* every field and the unused ones hold a default.                         *)
(***************************************************************************)
UTF8Key(nm) == [kind |-> "UTF8", text |-> nm, uniqueNameKind |-> "None", original |-> 0, num |-> 0]
ConstantKey(original) == [kind |-> "CONSTANT", text |-> <<>>, uniqueNameKind |-> "None", original |-> original, num |-> 0]
UniqueKey(unk, original, num) == [kind |-> "UNIQUE", text |-> <<>>, uniqueNameKind |-> unk, original |-> original, num |-> num]

UTF8Name(view) == [kind |-> "UTF8", utf8 |-> view, uniqueNameKind |-> "None", original |-> 0, num |-> 0]
ConstantName(original) == [kind |-> "CONSTANT", utf8 |-> NoView, uniqueNameKind |-> "None", original |-> original, num |-> 0]
UniqueName(unk, original, num) == [kind |-> "UNIQUE", utf8 |-> NoView, uniqueNameKind |-> unk, original |-> original, num |-> num]

\* the characters a string_view denotes
ViewText(pg, view) == IF view.len = 0 THEN <<>> ELSE SubSeq(pg[view.page], view.off + 1, view.off + view.len)

\* name id i is stored at names[i + 1]
NameAt(g, id) == g.names[id + 1]
namesUsed(g) == Len(g.names)

\* the key a stored name stands for
KeyOf(g, pg, id) ==
    LET nm == NameAt(g, id)
    IN  [kind |-> nm.kind, text |-> ViewText(pg, nm.utf8), uniqueNameKind |-> nm.uniqueNameKind,
         original |-> nm.original, num |-> nm.num]

(***************************************************************************)
(* Hash functions (core/Hashing.h).  Deliberately weak, so that distinct   *)
(* keys share hash values and buckets; every value is far below 2^32, the  *)
(* width of the hash.                                                      *)
(***************************************************************************)
RECURSIVE SumSeq(_)
SumSeq(s) == IF s = <<>> THEN 0 ELSE Head(s) + SumSeq(Tail(s))

UnkCode(unk) == IF unk = "MangleRename" THEN 1 ELSE 2

hash_utf8(nm) == SumSeq(nm) * 16
hash_mix_constant(original) == original * 8
hash_mix_unique(unk, num, original) == original * 8 + ((num - 1) \div 2) * 32 + (UnkCode(unk) - 1) * 64

HashOfKey(key) ==
    IF key.kind = "UTF8" THEN hash_utf8(key.text)
    ELSE IF key.kind = "CONSTANT" THEN hash_mix_constant(key.original)
    ELSE hash_mix_unique(key.uniqueNameKind, key.num, key.original)

(***************************************************************************)
(* Hash table.  Bucket b is namesByHash[b + 1]; a slot is empty when its   *)
(* second component (the name id) is 0.                                    *)
(***************************************************************************)
EmptySlot == [first |-> 0, second |-> 0]
Slot(tab, b) == tab[b + 1]
\* hs & mask, the table size being a power of two
Mask(hs, size) == hs % size

\* NameMatches without the text comparison of a UTF8 name
NameMatchesHashOnly(g, pg, id, key) ==
    LET nm == NameAt(g, id)
    IN  IF key.kind = "UTF8" THEN nm.kind = "UTF8"
        ELSE IF key.kind = "CONSTANT" THEN nm.kind = "CONSTANT" /\ nm.original = key.original
        ELSE /\ nm.kind = "UNIQUE"
             /\ nm.uniqueNameKind = key.uniqueNameKind
             /\ nm.num = key.num
             /\ nm.original = key.original

\* NameMatches without the counter comparison of a UNIQUE name
NameMatchesNoNum(g, pg, id, key) ==
    LET nm == NameAt(g, id)
    IN  IF key.kind = "UTF8" THEN nm.kind = "UTF8" /\ ViewText(pg, nm.utf8) = key.text
        ELSE IF key.kind = "CONSTANT" THEN nm.kind = "CONSTANT" /\ nm.original = key.original
        ELSE /\ nm.kind = "UNIQUE"
             /\ nm.uniqueNameKind = key.uniqueNameKind
             /\ nm.original = key.original

\* NameMatches without the kind test of a CONSTANT name
NameMatchesNoKind(g, pg, id, key) ==
    LET nm == NameAt(g, id)
    IN  IF key.kind = "UTF8" THEN nm.kind = "UTF8" /\ ViewText(pg, nm.utf8) = key.text
        ELSE IF key.kind = "CONSTANT" THEN nm.original = key.original
        ELSE /\ nm.kind = "UNIQUE"
             /\ nm.uniqueNameKind = key.uniqueNameKind
             /\ nm.num = key.num
             /\ nm.original = key.original

\* full key comparison of a stored name against the sought key
NameMatches(g, pg, id, key) ==
    LET nm == NameAt(g, id)
    IN  IF key.kind = "UTF8" THEN nm.kind = "UTF8" /\ ViewText(pg, nm.utf8) = key.text
        ELSE IF key.kind = "CONSTANT" THEN nm.kind = "CONSTANT" /\ nm.original = key.original
        ELSE /\ nm.kind = "UNIQUE"
             /\ nm.uniqueNameKind = key.uniqueNameKind
             /\ nm.num = key.num
             /\ nm.original = key.original

\* a probe loop that stays on its bucket instead of advancing: on a slot
\* used by another name the bounded loop runs until the probe count reaches
\* the size of the table, the unbounded loop does not end
ProbeLoopNoAdvance(g, pg, key, hs, bucketId, probeCount, bounded) ==
    LET size == Len(g.namesByHash)
        bucket == Slot(g.namesByHash, bucketId)
    IN  IF bucket.second = 0 \/ (bounded /\ probeCount >= size)
        THEN [found |-> noName, bucketId |-> bucketId, probeCount |-> probeCount, hang |-> FALSE]
        ELSE IF bucket.first = hs /\ NameMatches(g, pg, bucket.second, key)
        THEN [found |-> bucket.second, bucketId |-> bucketId, probeCount |-> probeCount, hang |-> FALSE]
        ELSE [found |-> noName, bucketId |-> bucketId, probeCount |-> size, hang |-> ~bounded]

\* The probe loop shared by the lookup and the enter functions.  `bounded`
\* is TRUE for the loops that also test probeCount < hashTableSize.  The
\* unbounded loop of the UTF8 functions cannot leave a table without an
\* empty slot: that outcome is reported as hang.
RECURSIVE ProbeLoop(_, _, _, _, _, _, _)
ProbeLoop(g, pg, key, hs, bucketId, probeCount, bounded) ==
    LET size == Len(g.namesByHash)
        bucket == Slot(g.namesByHash, bucketId)
    IN  IF bucket.second = 0 \/ (bounded /\ probeCount >= size)
        THEN [found |-> noName, bucketId |-> bucketId, probeCount |-> probeCount, hang |-> FALSE]
        ELSE IF ~bounded /\ probeCount > 2 * size
        THEN [found |-> noName, bucketId |-> bucketId, probeCount |-> probeCount, hang |-> TRUE]
        ELSE IF bucket.first = hs /\ NameMatches(g, pg, bucket.second, key)
        THEN [found |-> bucket.second, bucketId |-> bucketId, probeCount |-> probeCount, hang |-> FALSE]
        ELSE ProbeLoop(g, pg, key, hs, Mask(bucketId + probeCount, size), probeCount + 1, bounded)

Probe(g, pg, key, bounded) ==
    ProbeLoop(g, pg, key, HashOfKey(key), Mask(HashOfKey(key), Len(g.namesByHash)), 1, bounded)

\* first empty slot on the probe sequence of hs
RECURSIVE FindEmpty(_, _, _)
FindEmpty(tab, bucketId, probe) ==
    IF Slot(tab, bucketId).second = 0 THEN bucketId
    ELSE FindEmpty(tab, Mask(bucketId + probe, Len(tab)), probe + 1)

\* moveNames that stores every entry at its home bucket without probing
RECURSIVE moveNamesNoProbe(_, _, _)
moveNamesNoProbe(from, to, orig) ==
    IF orig >= Len(from) THEN to
    ELSE IF Slot(from, orig).second # 0
    THEN LET hs == Slot(from, orig).first
             bucketId == Mask(hs, Len(to))
         IN  moveNamesNoProbe(from, [to EXCEPT ![bucketId + 1] = Slot(from, orig)], orig + 1)
    ELSE moveNamesNoProbe(from, to, orig + 1)

RECURSIVE moveNames(_, _, _)
moveNames(from, to, orig) ==
    IF orig >= Len(from) THEN to
    ELSE IF Slot(from, orig).second # 0
    THEN LET hs == Slot(from, orig).first
             bucketId == FindEmpty(to, Mask(hs, Len(to)), 1)
         IN  moveNames(from, [to EXCEPT ![bucketId + 1] = Slot(from, orig)], orig + 1)
    ELSE moveNames(from, to, orig + 1)

\* variant: the name array is reserved and the hash table is left as it is
expandNamesSameTable(g, newSize) ==
    IF newSize > g.namesCapacity THEN [g EXCEPT !.namesCapacity = newSize] ELSE g

expandNames(g, newSize) ==
    IF newSize > g.namesCapacity
    THEN [g EXCEPT !.namesCapacity = newSize,
                   !.namesByHash = moveNames(g.namesByHash, [i \in 1..(newSize * 2) |-> EmptySlot], 0)]
    ELSE g

\* nextPowerOfTwo: the least power of two that is not less than v, 0 for 0
RECURSIVE PowerFrom(_, _)
PowerFrom(v, p) == IF p >= v THEN p ELSE PowerFrom(v, 2 * p)
nextPowerOfTwo(v) == IF v = 0 THEN 0 ELSE PowerFrom(v, 1)

(***************************************************************************)
(* String arena.  A page is a fixed-size array of characters, identified   *)
(* by its allocation number; g.strings is the vector of page pointers.     *)
(***************************************************************************)
NewPage(n) == [i \in 1..n |-> 0]
WriteAt(page, off, nm) == [i \in 1..Len(page) |-> IF i > off /\ i <= off + Len(nm) THEN nm[i - off] ELSE page[i]]

\* enterString that opens a fresh page without resetting stringsLastPageUsed
enterStringKeepsUsed(g, pg, nm) ==
    IF Len(nm) > STRINGS_PAGE_SIZE
    THEN LET p == Len(pg) + 1
             appended == Append(g.strings, p)
             n == Len(appended)
             swapped == IF n > 1
                        THEN [appended EXCEPT ![n] = appended[n - 1], ![n - 1] = appended[n]]
                        ELSE appended
         IN  [g |-> [g EXCEPT !.strings = swapped,
                              !.stringsLastPageUsed = g.stringsLastPageUsed + Len(nm)],
              pg |-> Append(pg, WriteAt(NewPage(Len(nm)), 0, nm)),
              view |-> [page |-> p, off |-> 0, len |-> Len(nm)]]
    ELSE LET fresh == g.stringsLastPageUsed + Len(nm) > STRINGS_PAGE_SIZE
             pg1 == IF fresh THEN Append(pg, NewPage(STRINGS_PAGE_SIZE)) ELSE pg
             strings1 == IF fresh THEN Append(g.strings, Len(pg) + 1) ELSE g.strings
             used == g.stringsLastPageUsed
             p == strings1[Len(strings1)]
         IN  [g |-> [g EXCEPT !.strings = strings1, !.stringsLastPageUsed = used + Len(nm)],
              pg |-> [pg1 EXCEPT ![p] = WriteAt(pg1[p], used, nm)],
              view |-> [page |-> p, off |-> used, len |-> Len(nm)]]

\* enterString that writes a short string at the start of the last page
enterStringAtPageStart(g, pg, nm) ==
    LET fresh == g.stringsLastPageUsed + Len(nm) > STRINGS_PAGE_SIZE
        pg1 == IF fresh THEN Append(pg, NewPage(STRINGS_PAGE_SIZE)) ELSE pg
        strings1 == IF fresh THEN Append(g.strings, Len(pg) + 1) ELSE g.strings
        used == IF fresh THEN 0 ELSE g.stringsLastPageUsed
        p == strings1[Len(strings1)]
    IN  [g |-> [g EXCEPT !.strings = strings1, !.stringsLastPageUsed = used + Len(nm)],
         pg |-> [pg1 EXCEPT ![p] = WriteAt(pg1[p], 0, nm)],
         view |-> [page |-> p, off |-> 0, len |-> Len(nm)]]

enterString(g, pg, nm) ==
    IF Len(nm) > STRINGS_PAGE_SIZE
    THEN LET p == Len(pg) + 1
             appended == Append(g.strings, p)
             n == Len(appended)
             swapped == IF n > 1
                        THEN [appended EXCEPT ![n] = appended[n - 1], ![n - 1] = appended[n]]
                        ELSE appended
         IN  [g |-> [g EXCEPT !.strings = swapped,
                              !.stringsLastPageUsed = g.stringsLastPageUsed + Len(nm)],
              pg |-> Append(pg, WriteAt(NewPage(Len(nm)), 0, nm)),
              view |-> [page |-> p, off |-> 0, len |-> Len(nm)]]
    ELSE LET fresh == g.stringsLastPageUsed + Len(nm) > STRINGS_PAGE_SIZE
             pg1 == IF fresh THEN Append(pg, NewPage(STRINGS_PAGE_SIZE)) ELSE pg
             strings1 == IF fresh THEN Append(g.strings, Len(pg) + 1) ELSE g.strings
             used == IF fresh THEN 0 ELSE g.stringsLastPageUsed
             p == strings1[Len(strings1)]
         IN  [g |-> [g EXCEPT !.strings = strings1, !.stringsLastPageUsed = used + Len(nm)],
              pg |-> [pg1 EXCEPT ![p] = WriteAt(pg1[p], used, nm)],
              view |-> [page |-> p, off |-> used, len |-> Len(nm)]]

(***************************************************************************)
(* Lookups: they read the table and return an id, noName on a miss.        *)
(***************************************************************************)
lookupNameUTF8(g, pg, nm) == Probe(g, pg, UTF8Key(nm), FALSE).found

\* UTF8, or UNIQUE of kind ResolverMissingClass / TEnum
ConstantOriginalOk(g, original) ==
    LET nm == NameAt(g, original)
    IN  nm.kind = "UTF8" \/ (nm.kind = "UNIQUE" /\ nm.uniqueNameKind \in {"ResolverMissingClass", "TEnum"})

lookupNameConstant(g, pg, original) ==
    IF original = noName THEN [ret |-> noName, status |-> "ok"]
    ELSE IF ~ConstantOriginalOk(g, original) THEN [ret |-> noName, status |-> "bad_args"]
    ELSE [ret |-> Probe(g, pg, ConstantKey(original), TRUE).found, status |-> "ok"]

lookupNameConstantStr(g, pg, nm) ==
    LET utf8 == lookupNameUTF8(g, pg, nm)
    IN  IF utf8 = noName THEN [ret |-> noName, status |-> "ok"] ELSE lookupNameConstant(g, pg, utf8)

lookupNameUnique(g, pg, unk, original, num) ==
    IF num <= 0 THEN [ret |-> noName, status |-> "bad_args"]
    ELSE [ret |-> Probe(g, pg, UniqueKey(unk, original, num), TRUE).found, status |-> "ok"]

(***************************************************************************)
(* Creating interns.  The result is the new GlobalState, the new heap, the *)
(* returned id and the status: ok, hang, or the failed check (frozen,      *)
(* full_table, bad_args, wrong_flags), which is fatal.                     *)
(***************************************************************************)
Res(g, pg, ret, status) == [g |-> g, pg |-> pg, ret |-> ret, status |-> status]

\* the part common to the three enter functions after the probe missed:
\* grow when the name array is full, take the slot, append the name
InsertName(g, pg, hs, bucketId, nameRec) ==
    LET full == namesUsed(g) = g.namesCapacity
        g1 == IF full THEN expandNames(g, g.namesCapacity * 2) ELSE g
        b == IF full THEN FindEmpty(g1.namesByHash, Mask(hs, Len(g1.namesByHash)), 1) ELSE bucketId
        idx == namesUsed(g)
    IN  [g1 EXCEPT !.namesByHash[b + 1] = [first |-> hs, second |-> idx],
                   !.names = Append(g.names, nameRec),
                   !.wasModified = TRUE]

enterNameUTF8(g, pg, nm) ==
    LET key == UTF8Key(nm)
        hs == HashOfKey(key)
        p == Probe(g, pg, key, FALSE)
    IN  IF p.hang THEN Res(g, pg, noName, "hang")
        ELSE IF p.found # noName THEN Res(g, pg, p.found, "ok")
        ELSE IF g.nameTableFrozen THEN Res(g, pg, noName, "frozen")
        ELSE IF p.probeCount = Len(g.namesByHash) THEN Res(g, pg, noName, "full_table")
        ELSE LET g1 == InsertName(g, pg, hs, p.bucketId, UTF8Name(NoView))
                 s == enterString(g1, pg, nm)
             IN  Res([s.g EXCEPT !.names[namesUsed(g) + 1].utf8 = s.view], s.pg, namesUsed(g), "ok")

\* enterNameConstant without the test of the name-table guard
enterNameConstantUnguarded(g, pg, original) ==
    LET key == ConstantKey(original)
        hs == HashOfKey(key)
        p == Probe(g, pg, key, TRUE)
    IN  IF original = noName \/ ~ConstantOriginalOk(g, original) THEN Res(g, pg, noName, "bad_args")
        ELSE IF p.found # noName THEN Res(g, pg, p.found, "ok")
        ELSE IF p.probeCount = Len(g.namesByHash) THEN Res(g, pg, noName, "full_table")
        ELSE Res(InsertName(g, pg, hs, p.bucketId, ConstantName(original)), pg, namesUsed(g), "ok")

enterNameConstant(g, pg, original) ==
    LET key == ConstantKey(original)
        hs == HashOfKey(key)
        p == Probe(g, pg, key, TRUE)
    IN  IF original = noName \/ ~ConstantOriginalOk(g, original) THEN Res(g, pg, noName, "bad_args")
        ELSE IF p.found # noName THEN Res(g, pg, p.found, "ok")
        ELSE IF p.probeCount = Len(g.namesByHash) THEN Res(g, pg, noName, "full_table")
        ELSE IF g.nameTableFrozen THEN Res(g, pg, noName, "frozen")
        ELSE Res(InsertName(g, pg, hs, p.bucketId, ConstantName(original)), pg, namesUsed(g), "ok")

enterNameConstantStr(g, pg, nm) ==
    LET r == enterNameUTF8(g, pg, nm)
    IN  IF r.status # "ok" THEN r ELSE enterNameConstant(r.g, r.pg, r.ret)

freshNameUnique(g, pg, unk, original, num) ==
    LET key == UniqueKey(unk, original, num)
        hs == HashOfKey(key)
        p == Probe(g, pg, key, TRUE)
    IN  IF num <= 0 THEN Res(g, pg, noName, "bad_args")
        ELSE IF p.found # noName THEN Res(g, pg, p.found, "ok")
        ELSE IF p.probeCount = Len(g.namesByHash) THEN Res(g, pg, noName, "full_table")
        ELSE IF g.nameTableFrozen THEN Res(g, pg, noName, "frozen")
        ELSE Res(InsertName(g, pg, hs, p.bucketId, UniqueName(unk, original, num)), pg, namesUsed(g), "ok")

(***************************************************************************)
(* Symbol store.  A reference is (kind, index); index i of an arena is     *)
(* stored at position i + 1.  Flags are the set of flag bits that are set, *)
(* so (flags & wanted) == wanted reads wanted \subseteq flags.             *)
(***************************************************************************)
SymbolKinds == {"ClassOrModule", "Method", "Field", "TypeArgument", "TypeMember"}
Variances == {"Invariant", "CoVariant", "ContraVariant"}

Ref(kind, idx) == [kind |-> kind, idx |-> idx]
noSymbol == Ref("ClassOrModule", 0)
exists(ref) == ref # noSymbol

Arena(g, kind) ==
    IF kind = "ClassOrModule" THEN g.classAndModules
    ELSE IF kind = "Method" THEN g.methods
    ELSE IF kind = "Field" THEN g.fields
    ELSE IF kind = "TypeArgument" THEN g.typeArguments
    ELSE g.typeMembers

WithArena(g, kind, arena) ==
    IF kind = "ClassOrModule" THEN [g EXCEPT !.classAndModules = arena]
    ELSE IF kind = "Method" THEN [g EXCEPT !.methods = arena]
    ELSE IF kind = "Field" THEN [g EXCEPT !.fields = arena]
    ELSE IF kind = "TypeArgument" THEN [g EXCEPT !.typeArguments = arena]
    ELSE [g EXCEPT !.typeMembers = arena]

\* every reference that denotes a record of its arena
InArena(g, ref) == ref.idx < Len(Arena(g, ref.kind))
dataAllowingNone(g, ref) == Arena(g, ref.kind)[ref.idx + 1]
SetData(g, ref, sym) == WithArena(g, ref.kind, [Arena(g, ref.kind) EXCEPT ![ref.idx + 1] = sym])

NoMembers == [n \in {} |-> noSymbol]
\* members()[name] = ref
PutMember(members, name, ref) == [n \in (DOMAIN members) \cup {name} |-> IF n = name THEN ref ELSE members[n]]

\* a default-constructed Symbol
EmptySymbol ==
    [name |-> noName, owner |-> noSymbol, flags |-> {}, members |-> NoMembers, typeParams |-> <<>>,
     superClass |-> noSymbol, mixins |-> <<>>, arguments |-> <<>>]

isClassOrModule(g, ref) == "CLASS_OR_MODULE" \in dataAllowingNone(g, ref).flags
isMethod(g, ref) == "METHOD" \in dataAllowingNone(g, ref).flags

RECURSIVE isClassName(_, _)
isClassName(g, name) ==
    LET nm == NameAt(g, name)
    IN  IF nm.kind = "UTF8" THEN FALSE
        ELSE IF nm.kind = "CONSTANT" THEN TRUE
        ELSE nm.uniqueNameKind \in {"Singleton", "MangleRename", "TEnum"} /\ isClassName(g, nm.original)

VarianceFlag(variance) ==
    IF variance = "Invariant" THEN "TYPE_INVARIANT"
    ELSE IF variance = "CoVariant" THEN "TYPE_COVARIANT"
    ELSE "TYPE_CONTRAVARIANT"

\* result of a symbol-table call: new state, returned reference, status
SymRes(g, ret, status) == [g |-> g, ret |-> ret, status |-> status]

\* index of the root class, fixed by the order of initEmpty
RootIndex == 3
root == Ref("ClassOrModule", RootIndex)

\* variant: the reference is computed after the record is appended
synthesizeClassIndexAfter(g, nameId, superclass, isModule) ==
    LET symRef == Ref("ClassOrModule", Len(g.classAndModules) + 1)
        data == [EmptySymbol EXCEPT !.name = nameId,
                                    !.owner = root,
                                    !.flags = {"CLASS_OR_MODULE", IF isModule THEN "MODULE" ELSE "CLASS"},
                                    !.superClass = Ref("ClassOrModule", superclass)]
        g1 == [g EXCEPT !.classAndModules = Append(g.classAndModules, data)]
    IN  SymRes(g1, symRef, "ok")

synthesizeClass(g, nameId, superclass, isModule) ==
    LET symRef == Ref("ClassOrModule", Len(g.classAndModules))
        data == [EmptySymbol EXCEPT !.name = nameId,
                                    !.owner = root,
                                    !.flags = {"CLASS_OR_MODULE", IF isModule THEN "MODULE" ELSE "CLASS"},
                                    !.superClass = Ref("ClassOrModule", superclass)]
        g1 == [g EXCEPT !.classAndModules = Append(g.classAndModules, data)]
    IN  IF symRef.idx > RootIndex
        THEN SymRes([g1 EXCEPT !.classAndModules[RootIndex + 1].members =
                                   PutMember(g1.classAndModules[RootIndex + 1].members, nameId, symRef)],
                    symRef, "ok")
        ELSE SymRes(g1, symRef, "ok")

\* variant: a hit is returned whatever its flags
EnterSymbolNoFlagCheck(g, kind, flags, owner, name) ==
    LET ownerScope == dataAllowingNone(g, owner)
        present == name \in DOMAIN ownerScope.members
        store == IF present THEN ownerScope.members[name] ELSE noSymbol
        gDefault == SetData(g, owner, [ownerScope EXCEPT !.members = PutMember(ownerScope.members, name, store)])
        ret == Ref(kind, Len(Arena(g, kind)))
        gStored == SetData(g, owner, [ownerScope EXCEPT !.members = PutMember(ownerScope.members, name, ret)])
        data == [EmptySymbol EXCEPT !.name = name, !.flags = flags, !.owner = owner]
    IN  IF exists(store) THEN SymRes(g, store, "ok")
        ELSE IF g.symbolTableFrozen THEN SymRes(gDefault, noSymbol, "frozen")
        ELSE SymRes([WithArena(gStored, kind, Append(Arena(gStored, kind), data)) EXCEPT !.wasModified = TRUE],
                    ret, "ok")

\* The body shared by the six enter functions once their argument checks
\* have passed: look the name up in the owner's members (operator[] adds a
\* default entry on a miss), return a hit whose flags fit, otherwise append
\* a record to the arena of `kind`.
EnterSymbol(g, kind, flags, owner, name) ==
    LET ownerScope == dataAllowingNone(g, owner)
        present == name \in DOMAIN ownerScope.members
        store == IF present THEN ownerScope.members[name] ELSE noSymbol
        gDefault == SetData(g, owner, [ownerScope EXCEPT !.members = PutMember(ownerScope.members, name, store)])
        ret == Ref(kind, Len(Arena(g, kind)))
        gStored == SetData(g, owner, [ownerScope EXCEPT !.members = PutMember(ownerScope.members, name, ret)])
        data == [EmptySymbol EXCEPT !.name = name, !.flags = flags, !.owner = owner]
    IN  IF exists(store)
        THEN IF flags \subseteq dataAllowingNone(g, store).flags
             THEN SymRes(g, store, "ok")
             ELSE SymRes(g, noSymbol, "wrong_flags")
        ELSE IF g.symbolTableFrozen THEN SymRes(gDefault, noSymbol, "frozen")
        ELSE SymRes([WithArena(gStored, kind, Append(Arena(gStored, kind), data)) EXCEPT !.wasModified = TRUE],
                    ret, "ok")

enterClassSymbol(g, owner, name) ==
    IF exists(owner) /\ ~isClassOrModule(g, owner) THEN SymRes(g, noSymbol, "bad_args")
    ELSE IF ~isClassName(g, name) THEN SymRes(g, noSymbol, "bad_args")
    ELSE EnterSymbol(g, "ClassOrModule", {"CLASS_OR_MODULE"}, owner, name)

\* variant: the reference is appended to the owner's list on a hit as well
enterTypeMemberAppendsOnHit(g, owner, name, variance) ==
    LET flags == {VarianceFlag(variance), "TYPE_MEMBER"}
        r == EnterSymbol(g, "TypeMember", flags, owner, name)
        ownerData == dataAllowingNone(r.g, owner)
    IN  IF ~exists(owner) \/ ~isClassOrModule(g, owner) \/ name = noName THEN SymRes(g, noSymbol, "bad_args")
        ELSE IF r.status = "ok"
        THEN SymRes(SetData(r.g, owner, [ownerData EXCEPT !.typeParams = Append(ownerData.typeParams, r.ret)]),
                    r.ret, "ok")
        ELSE r

\* variant: the reference the owner lists is made after the record has been
\* appended to the arena
enterTypeMemberRefAfterAppend(g, owner, name, variance) ==
    LET flags == {VarianceFlag(variance), "TYPE_MEMBER"}
        r == EnterSymbol(g, "TypeMember", flags, owner, name)
        created == r.status = "ok" /\ Len(r.g.typeMembers) > Len(g.typeMembers)
        ownerData == dataAllowingNone(r.g, owner)
    IN  IF ~exists(owner) \/ ~isClassOrModule(g, owner) \/ name = noName THEN SymRes(g, noSymbol, "bad_args")
        ELSE IF created
        THEN SymRes(SetData(r.g, owner, [ownerData EXCEPT
                                            !.typeParams = Append(ownerData.typeParams,
                                                                  Ref("TypeMember", Len(r.g.typeMembers)))]),
                    r.ret, "ok")
        ELSE r

enterTypeMember(g, owner, name, variance) ==
    LET flags == {VarianceFlag(variance), "TYPE_MEMBER"}
        r == EnterSymbol(g, "TypeMember", flags, owner, name)
        created == r.status = "ok" /\ Len(r.g.typeMembers) > Len(g.typeMembers)
        ownerData == dataAllowingNone(r.g, owner)
    IN  IF ~exists(owner) \/ ~isClassOrModule(g, owner) \/ name = noName THEN SymRes(g, noSymbol, "bad_args")
        ELSE IF created /\ \A i \in 1..Len(ownerData.typeParams) : ownerData.typeParams[i] # r.ret
        THEN SymRes(SetData(r.g, owner, [ownerData EXCEPT !.typeParams = Append(ownerData.typeParams, r.ret)]),
                    r.ret, "ok")
        ELSE r

enterTypeArgument(g, owner, name, variance) ==
    LET flags == {VarianceFlag(variance), "TYPE_ARGUMENT"}
        r == EnterSymbol(g, "TypeArgument", flags, owner, name)
        created == r.status = "ok" /\ Len(r.g.typeArguments) > Len(g.typeArguments)
        ownerData == dataAllowingNone(r.g, owner)
    IN  IF ~exists(owner) \/ name = noName THEN SymRes(g, noSymbol, "bad_args")
        ELSE IF created
        THEN SymRes(SetData(r.g, owner, [ownerData EXCEPT !.typeParams = Append(ownerData.typeParams, r.ret)]),
                    r.ret, "ok")
        ELSE r

enterMethodSymbol(g, owner, name) ==
    IF ~exists(owner) \/ ~isClassOrModule(g, owner) THEN SymRes(g, noSymbol, "bad_args")
    ELSE EnterSymbol(g, "Method", {"METHOD"}, owner, name)

enterFieldSymbol(g, owner, name) ==
    IF ~exists(owner) \/ ~isClassOrModule(g, owner) \/ name = noName THEN SymRes(g, noSymbol, "bad_args")
    ELSE EnterSymbol(g, "Field", {"FIELD"}, owner, name)

\* variant: the record is flagged as an instance field
enterStaticFieldSymbolAsField(g, owner, name) ==
    IF ~exists(owner) \/ ~isClassOrModule(g, owner) \/ name = noName THEN SymRes(g, noSymbol, "bad_args")
    ELSE EnterSymbol(g, "Field", {"FIELD"}, owner, name)

enterStaticFieldSymbol(g, owner, name) ==
    IF ~exists(owner) \/ ~isClassOrModule(g, owner) \/ name = noName THEN SymRes(g, noSymbol, "bad_args")
    ELSE EnterSymbol(g, "Field", {"STATIC_FIELD"}, owner, name)

\* a default-constructed ArgInfo, and the position of the argument of a name
\* in a method's argument list (0 when it has none)
EmptyArgInfo == [name |-> noName]
ArgPosition(arguments, name) ==
    IF \E i \in 1..Len(arguments) : arguments[i].name = name
    THEN CHOOSE i \in 1..Len(arguments) :
             arguments[i].name = name /\ \A j \in 1..(i - 1) : arguments[j].name # name
    ELSE 0

\* returns the position of the argument; the element is appended before the
\* guard is tested
enterMethodArgumentSymbol(g, owner, name) ==
    LET ownerScope == dataAllowingNone(g, owner)
        found == ArgPosition(ownerScope.arguments, name)
        gEmplaced == SetData(g, owner, [ownerScope EXCEPT !.arguments = Append(@, EmptyArgInfo)])
        gStored == SetData(g, owner, [ownerScope EXCEPT !.arguments = Append(@, [name |-> name])])
    IN  IF ~exists(owner) \/ ~isMethod(g, owner) \/ name = noName THEN SymRes(g, 0, "bad_args")
        ELSE IF found # 0 THEN SymRes(g, found, "ok")
        ELSE IF g.symbolTableFrozen THEN SymRes(gEmplaced, 0, "frozen")
        ELSE SymRes([gStored EXCEPT !.wasModified = TRUE], Len(ownerScope.arguments) + 1, "ok")

\* members().erase(name)
RemoveMember(members, name) == [n \in (DOMAIN members) \ {name} |-> members[n]]

\* Symbol::findMember: the symbol the member table holds under the name
findMember(g, ref, name) ==
    LET members == dataAllowingNone(g, ref).members
    IN  IF name \in DOMAIN members THEN members[name] ELSE noSymbol

\* Names::singleton(), the member name under which a class keeps its singleton
\* class, and Symbol::lookupSingletonClass
SingletonMemberName == BootUTF8(7)
lookupSingletonClass(g, ref) == findMember(g, ref, SingletonMemberName)

\* variant: the first MangleRename name is taken without the test of the
\* owner's member table
MangleNameUntested(g, pg, owner, origName, collisionCount) ==
    freshNameUnique(g, pg, "MangleRename", origName, collisionCount)

\* the do-while loop of mangleRenameSymbol: the first MangleRename name of
\* origName, counting from collisionCount, under which the owner holds nothing
RECURSIVE MangleName(_, _, _, _, _)
MangleName(g, pg, owner, origName, collisionCount) ==
    LET r == freshNameUnique(g, pg, "MangleRename", origName, collisionCount)
    IN  IF r.status # "ok" THEN r
        ELSE IF exists(findMember(r.g, owner, r.ret))
        THEN MangleName(r.g, r.pg, owner, origName, collisionCount + 1)
        ELSE r

\* the checks mangleRenameSymbol makes before it renames: the owner holds
\* the symbol under origName, which is the symbol's name
RenameChecks(g, what, origName) ==
    LET whatData == dataAllowingNone(g, what)
        ownerMembers == dataAllowingNone(g, whatData.owner).members
    IN  origName \in DOMAIN ownerMembers /\ ownerMembers[origName] = what /\ whatData.name = origName

\* variant: the entry under the original name is kept
MoveEntryKeepsEntry(g, owner, what, origName, name) ==
    LET ownerData == dataAllowingNone(g, owner)
    IN  SetData(g, owner, [ownerData EXCEPT !.members = PutMember(ownerData.members, name, what)])

\* ownerMembers.erase(fnd); ownerMembers[name] = what
MoveEntry(g, owner, what, origName, name) ==
    LET ownerData == dataAllowingNone(g, owner)
    IN  SetData(g, owner, [ownerData EXCEPT
                               !.members = PutMember(RemoveMember(ownerData.members, origName), name, what)])

\* whatData->name = name
SetName(g, what, name) == SetData(g, what, [dataAllowingNone(g, what) EXCEPT !.name = name])

\* the result of the rename of a singleton class, seen from the rename of
\* its class
RenamedAs(r, name) == IF r.status = "ok" THEN Res(r.g, r.pg, name, "ok") ELSE r

\* the part of mangleRenameSymbol after the loop has found the name n.ret;
\* returns the new name of the symbol (the code returns nothing)
RECURSIVE Renamed(_, _, _, _)
mangleRenameSymbol(g, pg, what, origName) ==
    IF ~RenameChecks(g, what, origName) THEN Res(g, pg, noName, "bad_args")
    ELSE Renamed(dataAllowingNone(g, what).owner, what, origName,
                 MangleName(g, pg, dataAllowingNone(g, what).owner, origName, 1))

Renamed(owner, what, origName, n) ==
    IF n.status # "ok" THEN Res(n.g, n.pg, noName, n.status)
    ELSE IF isClassOrModule(n.g, what) /\ exists(lookupSingletonClass(n.g, what))
    THEN RenamedAs(mangleRenameSymbol(SetName(MoveEntry(n.g, owner, what, origName, n.ret), what, n.ret),
                                      n.pg,
                                      lookupSingletonClass(n.g, what),
                                      dataAllowingNone(n.g, lookupSingletonClass(n.g, what)).name),
                   n.ret)
    ELSE Res(SetName(MoveEntry(n.g, owner, what, origName, n.ret), what, n.ret), n.pg, n.ret, "ok")

\* Symbol::singletonClass: the singleton class of a class, created on first
\* use under the Singleton name of the class in the owner of the class, and
\* kept by the class under Names::singleton()
singletonClass(g, pg, klass) ==
    IF exists(lookupSingletonClass(g, klass)) THEN Res(g, pg, noName, "ok")
    ELSE LET data == dataAllowingNone(g, klass)
             n == freshNameUnique(g, pg, "Singleton", data.name, 1)
             e == enterClassSymbol(n.g, data.owner, n.ret)
         IN  IF n.status # "ok" THEN n
             ELSE IF e.status # "ok" THEN Res(e.g, n.pg, noName, e.status)
             ELSE LET kd == dataAllowingNone(e.g, klass)
                  IN  Res(SetData(e.g, klass, [kd EXCEPT !.members = PutMember(kd.members, SingletonMemberName, e.ret)]),
                          n.pg, n.ret, "ok")

\* the loop of lookupSymbolWithFlags: lookupName is the name or, from the
\* second round on, its MangleRename name with counter unique - 1
RECURSIVE LookupWithFlags(_, _, _, _, _, _, _)
LookupWithFlags(g, pg, members, name, flags, lookupName, unique) ==
    IF lookupName \notin DOMAIN members THEN SymRes(g, noSymbol, "ok")
    ELSE IF ~exists(members[lookupName]) THEN SymRes(g, noSymbol, "enforce")
    ELSE IF flags \subseteq dataAllowingNone(g, members[lookupName]).flags
    THEN SymRes(g, members[lookupName], "ok")
    ELSE LET next == lookupNameUnique(g, pg, "MangleRename", name, unique).ret
         IN  IF next = noName THEN SymRes(g, noSymbol, "ok")
             ELSE LookupWithFlags(g, pg, members, name, flags, next, unique + 1)

lookupSymbolWithFlags(g, pg, owner, name, flags) ==
    IF ~exists(owner) \/ name = noName THEN SymRes(g, noSymbol, "enforce")
    ELSE LookupWithFlags(g, pg, dataAllowingNone(g, owner).members, name, flags, name, 1)

\* the while loop of findRenamedSymbol for a name that is not unique:
\* lookupName is the MangleRename name of `name` with counter `unique`, or
\* noName when no such name is interned
RECURSIVE FindLargest(_, _, _, _, _, _)
FindLargest(g, pg, members, name, unique, lookupName) ==
    IF lookupName \notin DOMAIN members THEN [ret |-> noSymbol, status |-> "ok"]
    ELSE IF ~exists(members[lookupName]) THEN [ret |-> noSymbol, status |-> "enforce"]
    ELSE LET next == lookupNameUnique(g, pg, "MangleRename", name, unique + 1).ret
         IN  IF next = noName THEN [ret |-> members[lookupName], status |-> "ok"]
             ELSE FindLargest(g, pg, members, name, unique + 1, next)

findRenamedSymbol(g, pg, owner, sym) ==
    IF ~exists(sym) THEN [ret |-> noSymbol, status |-> "enforce"]
    ELSE LET name == dataAllowingNone(g, sym).name
             nameData == NameAt(g, name)
             members == dataAllowingNone(g, owner).members
         IN  IF nameData.kind = "UNIQUE"
             THEN IF nameData.uniqueNameKind # "MangleRename" THEN [ret |-> noSymbol, status |-> "ok"]
                  ELSE IF nameData.num = 1 THEN [ret |-> noSymbol, status |-> "ok"]
                  ELSE LET nm == lookupNameUnique(g, pg, "MangleRename", nameData.original, nameData.num - 1).ret
                       IN  IF nm = noName THEN [ret |-> noSymbol, status |-> "ok"]
                           ELSE IF nm \notin DOMAIN members \/ ~exists(members[nm])
                           THEN [ret |-> noSymbol, status |-> "enforce"]
                           ELSE [ret |-> members[nm], status |-> "ok"]
             ELSE FindLargest(g, pg, members, name, 1, lookupNameUnique(g, pg, "MangleRename", name, 1).ret)

EnterOps == {"enterClassSymbol", "enterTypeMember", "enterTypeArgument", "enterMethodSymbol",
             "enterFieldSymbol", "enterStaticFieldSymbol"}

\* dispatch of one enter call by the name of the operation
Enter(g, op, owner, name, variance) ==
    IF op = "enterClassSymbol" THEN enterClassSymbol(g, owner, name)
    ELSE IF op = "enterTypeMember" THEN enterTypeMember(g, owner, name, variance)
    ELSE IF op = "enterTypeArgument" THEN enterTypeArgument(g, owner, name, variance)
    ELSE IF op = "enterMethodSymbol" THEN enterMethodSymbol(g, owner, name)
    ELSE IF op = "enterFieldSymbol" THEN enterFieldSymbol(g, owner, name)
    ELSE enterStaticFieldSymbol(g, owner, name)

(***************************************************************************)
(* File table: the paths of the files, by file id; the first file stands   *)
(* for the absence of a file.                                              *)
(***************************************************************************)
NoPath == 0
FilePaths == {1, 2}

filesUsed(g) == Len(g.files)

\* returns the id of the new file; a path that is already entered is refused
\* by the scan of the files
enterFile(g, path) ==
    IF g.fileTableFrozen THEN [g |-> g, ret |-> 0, status |-> "frozen"]
    ELSE IF \E i \in 1..Len(g.files) : g.files[i] # NoPath /\ g.files[i] = path
    THEN [g |-> g, ret |-> 0, status |-> "duplicate_path"]
    ELSE LET g1 == [g EXCEPT !.files = Append(g.files, path)]
         IN  [g |-> g1, ret |-> filesUsed(g1) - 1, status |-> "ok"]

(***************************************************************************)
(* State machine.                                                          *)
(*   gs        the GlobalState                                             *)
(*   pages     the string pages, by allocation number                      *)
(*   pc        constructed -> initEmpty -> ready; aborted after a fatal    *)
(*             invariant violation, hung after a loop that cannot end      *)
(*   last      the last call: operation, status, returned name id or       *)
(*             symbol reference, whether it found an existing entry, and   *)
(*             its arguments (the key of a name-table call; the string     *)
(*             overloads record the UTF8 key of their text)                *)
(*   interned  history: every (key, id) an intern call has returned        *)
(*   other     the second GlobalState of the process once deepCopy has     *)
(*             run: calls act on `gs`, and the caller hands its next calls *)
(*             to the other GlobalState by exchanging the two; isCopy      *)
(*             tells whether `other.g` is the copy or the original;        *)
(*             globalStateIdCounter is the process-wide id counter         *)
(***************************************************************************)
\* user symbols created by enter calls are capped at MaxSyms
MaxSyms == 2

\* no second GlobalState yet; the constructor has drawn id 1 from
\* globalStateIdCounter, which starts at 1
NoGlobalState == [globalStateId |-> 0]
NoOther == [g |-> NoGlobalState, isCopy |-> FALSE, keepId |-> FALSE, globalStateIdCounter |-> 2]

NoKey == [kind |-> "NONE", text |-> <<>>, uniqueNameKind |-> "None", original |-> 0, num |-> 0]
NoCall ==
    [op |-> "none", status |-> "ok", ret |-> noName, sym |-> noSymbol, hit |-> FALSE, key |-> NoKey,
     owner |-> noSymbol, name |-> noName, variance |-> "Invariant", diags |-> {}, errors |-> <<>>,
     aliases |-> <<>>]
NameCall(op, key, status, ret, hit) ==
    [NoCall EXCEPT !.op = op, !.key = key, !.status = status, !.ret = ret, !.hit = hit]
SymCall(op, status, sym, hit, owner, name, variance) ==
    [NoCall EXCEPT !.op = op, !.status = status, !.sym = sym, !.hit = hit,
                   !.owner = owner, !.name = name, !.variance = variance]

PcAfter(status) == IF status = "ok" THEN "ready" ELSE IF status = "hang" THEN "hung" ELSE "aborted"

\* the constructor: the id is drawn from globalStateIdCounter
NewGlobalState(id) ==
    [names |-> <<>>,
     namesCapacity |-> PAYLOAD_MAX_NAME_COUNT,
     namesByHash |-> [i \in 1..(2 * PAYLOAD_MAX_NAME_COUNT) |-> EmptySlot],
     strings |-> <<>>,
     stringsLastPageUsed |-> STRINGS_PAGE_SIZE + 1,
     nameTableFrozen |-> TRUE,
     symbolTableFrozen |-> TRUE,
     fileTableFrozen |-> TRUE,
     wasModified |-> FALSE,
     classAndModules |-> <<>>,
     methods |-> <<>>,
     fields |-> <<>>,
     typeArguments |-> <<>>,
     typeMembers |-> <<>>,
     files |-> <<>>,
     globalStateId |-> id]

Init ==
    /\ gs = NewGlobalState(1)
    /\ pages = <<>>
    /\ pc = "constructed"
    /\ last = NoCall
    /\ interned = {}
    /\ other = NoOther

(***************************************************************************)
(* initEmpty: the reserved name 0, the registered names, the built-in      *)
(* classes, the reserved file 0, then the three guards are set.  The       *)
(* built-in list is cut after its first classes; Object names BasicObject  *)
(* as its superclass before BasicObject exists, as in the source.          *)
(***************************************************************************)
\* Names::registerNames: each text is interned as a constant
RECURSIVE registerNames(_, _, _, _)
registerNames(g, pg, i, acc) ==
    IF i > Len(BootStrings) THEN [g |-> g, pg |-> pg, acc |-> acc]
    ELSE LET u == enterNameUTF8(g, pg, BootStrings[i])
             c == enterNameConstant(u.g, u.pg, u.ret)
         IN  registerNames(c.g, c.pg, i + 1,
                           acc \cup {[key |-> UTF8Key(BootStrings[i]), id |-> u.ret],
                                     [key |-> ConstantKey(u.ret), id |-> c.ret]})

\* number of names after initEmpty
BootNameCount == 1 + 2 * Len(BootStrings)
\* the i-th registered constant
BootConstant(i) == 2 * i

\* NoSymbol, Top, Bottom, Root, Todo, Object, BasicObject
BootClasses ==
    << [name |-> BootConstant(1), superclass |-> 0, isModule |-> FALSE],
       [name |-> BootConstant(2), superclass |-> 0, isModule |-> FALSE],
       [name |-> BootConstant(3), superclass |-> 0, isModule |-> FALSE],
       [name |-> BootConstant(4), superclass |-> 0, isModule |-> FALSE],
       [name |-> BootConstant(5), superclass |-> 0, isModule |-> FALSE],
       [name |-> BootConstant(6), superclass |-> 6, isModule |-> FALSE],
       [name |-> BootConstant(7), superclass |-> 0, isModule |-> FALSE] >>

\* Symbol::setIsModule and Symbol::setSuperClass
setIsModule(g, ref, isModule) ==
    SetData(g, ref, [dataAllowingNone(g, ref) EXCEPT !.flags = @ \cup {IF isModule THEN "MODULE" ELSE "CLASS"}])
setSuperClass(g, ref, klass) == SetData(g, ref, [dataAllowingNone(g, ref) EXCEPT !.superClass = klass])

\* The two stub classes and Class follow the synthesized classes.  They are
\* entered with enterClassSymbol under a built-in owner; the name list being
\* cut, they take registered class names that this owner does not hold yet.
StubOwner == Ref("ClassOrModule", 4)
Object == Ref("ClassOrModule", 5)
BasicObject == Ref("ClassOrModule", 6)
StubModule == Ref("ClassOrModule", Len(BootClasses))
StubSuperClass == Ref("ClassOrModule", Len(BootClasses) + 1)
Class == Ref("ClassOrModule", Len(BootClasses) + 2)
\* StubModule, StubSuperClass, Class: name, kind and superclass
BootStubs ==
    << [name |-> BootConstant(2), isModule |-> TRUE, superClass |-> noSymbol],
       [name |-> BootConstant(3), isModule |-> FALSE, superClass |-> Object],
       [name |-> BootConstant(5), isModule |-> FALSE, superClass |-> noSymbol] >>
\* classes after initEmpty
BootClassCount == Len(BootClasses) + Len(BootStubs)

InitEmptyBegin ==
    /\ pc = "constructed"
    /\ LET g0 == [gs EXCEPT !.fileTableFrozen = FALSE, !.nameTableFrozen = FALSE, !.symbolTableFrozen = FALSE,
                            !.names = Append(gs.names, UTF8Name(NoView))]
           r == registerNames(g0, pages, 1, {})
       IN  /\ gs' = r.g
           /\ pages' = r.pg
           /\ interned' = r.acc
    /\ pc' = "initEmpty"
    /\ last' = NameCall("registerNames", NoKey, "ok", noName, FALSE)
    /\ UNCHANGED other

InitEmptySynthesize ==
    /\ pc = "initEmpty"
    /\ Len(gs.classAndModules) < Len(BootClasses)
    /\ LET b == BootClasses[Len(gs.classAndModules) + 1]
           r == synthesizeClass(gs, b.name, b.superclass, b.isModule)
       IN  /\ gs' = r.g
           /\ last' = SymCall("synthesizeClass", "ok", r.ret, FALSE, root, b.name, "Invariant")
    /\ UNCHANGED <<pages, pc, interned, other>>

InitEmptyStubs ==
    /\ pc = "initEmpty"
    /\ Len(gs.classAndModules) >= Len(BootClasses)
    /\ Len(gs.classAndModules) < BootClassCount
    /\ LET b == BootStubs[Len(gs.classAndModules) - Len(BootClasses) + 1]
           r == enterClassSymbol(gs, StubOwner, b.name)
           g1 == setIsModule(r.g, r.ret, b.isModule)
       IN  /\ gs' = IF exists(b.superClass) THEN setSuperClass(g1, r.ret, b.superClass) ELSE g1
           /\ last' = SymCall("enterClassSymbol", r.status, r.ret, FALSE, StubOwner, b.name, "Invariant")
    /\ UNCHANGED <<pages, pc, interned, other>>

\* "Root members": the three classes created before the root are stored in
\* its member table by hand, noSymbol included
RootMembers(g) ==
    LET m0 == g.classAndModules[RootIndex + 1].members
        m1 == PutMember(m0, BootConstant(1), noSymbol)
        m2 == PutMember(m1, BootConstant(2), Ref("ClassOrModule", 1))
        m3 == PutMember(m2, BootConstant(3), Ref("ClassOrModule", 2))
    IN  [g EXCEPT !.classAndModules[RootIndex + 1].members = m3]

InitEmptyEnd ==
    /\ pc = "initEmpty"
    /\ Len(gs.classAndModules) = BootClassCount
    /\ gs' = [RootMembers(gs) EXCEPT !.files = Append(gs.files, NoPath),
                                     !.nameTableFrozen = TRUE, !.symbolTableFrozen = TRUE,
                                     !.fileTableFrozen = TRUE]
    /\ pc' = "ready"
    /\ last' = NoCall
    /\ UNCHANGED <<pages, interned, other>>

(***************************************************************************)
(* Write guards.                                                           *)
(***************************************************************************)
freezeNameTable(g) == [g |-> [g EXCEPT !.nameTableFrozen = TRUE], old |-> g.nameTableFrozen]
unfreezeNameTable(g) == [g |-> [g EXCEPT !.nameTableFrozen = FALSE], old |-> g.nameTableFrozen]
freezeSymbolTable(g) == [g |-> [g EXCEPT !.symbolTableFrozen = TRUE], old |-> g.symbolTableFrozen]
unfreezeSymbolTable(g) == [g |-> [g EXCEPT !.symbolTableFrozen = FALSE], old |-> g.symbolTableFrozen]
\* variant: every guard is set
freezeFileTableSetsAll(g) ==
    [g |-> [g EXCEPT !.fileTableFrozen = TRUE, !.nameTableFrozen = TRUE, !.symbolTableFrozen = TRUE],
     old |-> g.fileTableFrozen]
freezeFileTable(g) == [g |-> [g EXCEPT !.fileTableFrozen = TRUE], old |-> g.fileTableFrozen]
unfreezeFileTable(g) == [g |-> [g EXCEPT !.fileTableFrozen = FALSE], old |-> g.fileTableFrozen]

GuardStep(op, r) ==
    /\ pc = "ready"
    /\ gs' = r.g
    /\ last' = [NoCall EXCEPT !.op = op, !.hit = r.old]
    /\ UNCHANGED <<pages, pc, interned, other>>

FreezeNameTable == GuardStep("freezeNameTable", freezeNameTable(gs))
UnfreezeNameTable == GuardStep("unfreezeNameTable", unfreezeNameTable(gs))
FreezeSymbolTable == GuardStep("freezeSymbolTable", freezeSymbolTable(gs))
UnfreezeSymbolTable == GuardStep("unfreezeSymbolTable", unfreezeSymbolTable(gs))
FreezeFileTable == GuardStep("freezeFileTable", freezeFileTable(gs))
UnfreezeFileTable == GuardStep("unfreezeFileTable", unfreezeFileTable(gs))

(***************************************************************************)
(* Name-table calls.                                                       *)
(***************************************************************************)
\* ids passed as `original`: the first registered text and every name
\* interned after initEmpty
NameIdInputs(g) == {id \in {1} \cup (BootNameCount..(namesUsed(g) - 1)) : id < namesUsed(g)}

InternStep(op, key, r, keys) ==
    /\ pc = "ready"
    /\ namesUsed(r.g) <= MaxNames
    /\ gs' = r.g
    /\ pages' = r.pg
    /\ pc' = PcAfter(r.status)
    /\ last' = NameCall(op, key, r.status, r.ret, r.status = "ok" /\ namesUsed(r.g) = namesUsed(gs))
    /\ interned' = IF r.status = "ok" THEN interned \cup keys ELSE interned
    /\ UNCHANGED other

EnterNameUTF8 ==
    \E nm \in UserStrings :
        LET r == enterNameUTF8(gs, pages, nm)
        IN  InternStep("enterNameUTF8", UTF8Key(nm), r, {[key |-> UTF8Key(nm), id |-> r.ret]})

\* texts of one character: the last page of the built-in names has room for
\* one of them
ShortStrings == { <<1>>, <<2>> }
EnterShortNameUTF8 ==
    \E nm \in ShortStrings :
        LET r == enterNameUTF8(gs, pages, nm)
        IN  InternStep("enterNameUTF8", UTF8Key(nm), r, {[key |-> UTF8Key(nm), id |-> r.ret]})

EnterNameConstant ==
    \E original \in NameIdInputs(gs) :
        LET r == enterNameConstant(gs, pages, original)
        IN  InternStep("enterNameConstant", ConstantKey(original), r, {[key |-> ConstantKey(original), id |-> r.ret]})

EnterNameConstantStr ==
    \E nm \in UserStrings :
        LET u == enterNameUTF8(gs, pages, nm)
            r == enterNameConstantStr(gs, pages, nm)
        IN  InternStep("enterNameConstantStr", UTF8Key(nm), r,
                       {[key |-> UTF8Key(nm), id |-> u.ret], [key |-> ConstantKey(u.ret), id |-> r.ret]})

FreshNameUnique ==
    \E u \in UniqueInputs, original \in NameIdInputs(gs) :
        LET key == UniqueKey(u[1], original, u[2])
            r == freshNameUnique(gs, pages, u[1], original, u[2])
        IN  InternStep("freshNameUnique", key, r, {[key |-> key, id |-> r.ret]})

LookupStep(op, key, r) ==
    /\ pc = "ready"
    /\ pc' = PcAfter(r.status)
    /\ last' = NameCall(op, key, r.status, r.ret, r.ret # noName)
    /\ UNCHANGED <<gs, pages, interned, other>>

LookupNameUTF8 ==
    \E nm \in UserStrings :
        LookupStep("lookupNameUTF8", UTF8Key(nm), [ret |-> lookupNameUTF8(gs, pages, nm), status |-> "ok"])

LookupNameConstant ==
    \E original \in NameIdInputs(gs) \cup {noName} :
        LookupStep("lookupNameConstant", ConstantKey(original), lookupNameConstant(gs, pages, original))

LookupNameConstantStr ==
    \E nm \in UserStrings :
        LookupStep("lookupNameConstantStr", UTF8Key(nm), lookupNameConstantStr(gs, pages, nm))

LookupNameUnique ==
    \E u \in UniqueInputs, original \in NameIdInputs(gs) :
        LookupStep("lookupNameUnique", UniqueKey(u[1], original, u[2]),
                   lookupNameUnique(gs, pages, u[1], original, u[2]))

(***************************************************************************)
(* Symbol-table calls.                                                     *)
(***************************************************************************)
symbolsUsedTotal(g) ==
    Len(g.classAndModules) + Len(g.methods) + Len(g.fields) + Len(g.typeArguments) + Len(g.typeMembers)

RECURSIVE argumentsUsed(_, _)
argumentsUsed(g, i) ==
    IF i > Len(g.methods) THEN 0 ELSE Len(g.methods[i].arguments) + argumentsUsed(g, i + 1)
\* symbols and method arguments, the number the calls are capped by
entriesUsed(g) == symbolsUsedTotal(g) + argumentsUsed(g, 1)

RefsOf(g, kind) == {Ref(kind, i) : i \in 0..(Len(Arena(g, kind)) - 1)}

\* owners passed to the enter calls: the root, the classes entered after
\* initEmpty, and for type arguments the methods
ClassOwnerInputs(g) ==
    {root} \cup {ref \in RefsOf(g, "ClassOrModule") : ref.idx >= BootClassCount}
OwnerInputs(g, op) == IF op = "enterTypeArgument" THEN RefsOf(g, "Method") ELSE ClassOwnerInputs(g)

\* names passed to the enter calls: a plain name, the class name under which
\* the root stores noSymbol (and which no other member table holds), and the
\* class name of a built-in member of the root
SymNameInputs == {1, BootConstant(1), BootConstant(6)}

VarianceInputs(op) == IF op \in {"enterTypeMember", "enterTypeArgument"} THEN Variances ELSE {"Invariant"}

EnterCall ==
    /\ pc = "ready"
    /\ \E op \in EnterOps :
        \E owner \in OwnerInputs(gs, op), name \in SymNameInputs, variance \in VarianceInputs(op) :
            LET r == Enter(gs, op, owner, name, variance)
            IN  /\ entriesUsed(r.g) <= BootClassCount + MaxSyms
                /\ gs' = r.g
                /\ pc' = PcAfter(r.status)
                /\ last' = SymCall(op, r.status, r.ret,
                                   r.status = "ok" /\ symbolsUsedTotal(r.g) = symbolsUsedTotal(gs),
                                   owner, name, variance)
    /\ UNCHANGED <<pages, interned, other>>

EnterMethodArgumentSymbol ==
    /\ pc = "ready"
    /\ \E owner \in RefsOf(gs, "Method"), name \in SymNameInputs :
            LET r == enterMethodArgumentSymbol(gs, owner, name)
            IN  /\ entriesUsed(r.g) <= BootClassCount + MaxSyms
                /\ gs' = r.g
                /\ pc' = PcAfter(r.status)
                /\ last' = [SymCall("enterMethodArgumentSymbol", r.status, noSymbol,
                                    r.status = "ok" /\ r.g = gs, owner, name, "Invariant")
                               EXCEPT !.ret = r.ret]
    /\ UNCHANGED <<pages, interned, other>>

\* symbols passed to mangleRenameSymbol: every symbol entered after
\* initEmpty; the name passed is the symbol's name or another class name
RenameInputs(g) ==
    {ref \in UNION {RefsOf(g, kind) : kind \in SymbolKinds} :
        ref.kind # "ClassOrModule" \/ ref.idx >= BootClassCount}

RenameStep(what, origName, r) ==
    /\ namesUsed(r.g) <= MaxNames
    /\ gs' = r.g
    /\ pages' = r.pg
    /\ pc' = PcAfter(r.status)
    /\ last' = [SymCall("mangleRenameSymbol", r.status, what, FALSE,
                        dataAllowingNone(gs, what).owner, origName, "Invariant")
                   EXCEPT !.ret = r.ret]
    /\ interned' = interned \cup {[key |-> KeyOf(r.g, r.pg, id), id |-> id] :
                                      id \in namesUsed(gs)..(namesUsed(r.g) - 1)}
    /\ UNCHANGED other

MangleRenameSymbol ==
    /\ pc = "ready"
    /\ \E what \in RenameInputs(gs) :
        \E origName \in {dataAllowingNone(gs, what).name, BootConstant(1)} :
            RenameStep(what, origName, mangleRenameSymbol(gs, pages, what, origName))

EnterFile ==
    /\ pc = "ready"
    /\ \E path \in FilePaths :
            LET r == enterFile(gs, path)
            IN  /\ gs' = r.g
                /\ pc' = PcAfter(r.status)
                /\ last' = [NoCall EXCEPT !.op = "enterFile", !.status = r.status, !.ret = r.ret, !.name = path]
    /\ UNCHANGED <<pages, interned, other>>

(***************************************************************************)
(* Ancestor linearizer (resolver).  The latch "linearization computed" is  *)
(* a flag of the class.  A call returns the state, the diagnostics emitted *)
(* (class, mixin) and a status.  `active` holds the classes whose call is  *)
(* still running: a call for one of them that finds the latch not set runs *)
(* the steps of the running call again, on a state that differs only in    *)
(* latches those steps have set, so the recursion does not end.            *)
(***************************************************************************)
isClassOrModuleModule(g, ref) == "MODULE" \in dataAllowingNone(g, ref).flags
isClassOrModuleLinearizationComputed(g, ref) == "LINEARIZATION_COMPUTED" \in dataAllowingNone(g, ref).flags
setClassOrModuleLinearizationComputed(g, ref) ==
    SetData(g, ref, [dataAllowingNone(g, ref) EXCEPT !.flags = @ \cup {"LINEARIZATION_COMPUTED"}])
superClass(g, ref) == dataAllowingNone(g, ref).superClass
mixins(g, ref) == dataAllowingNone(g, ref).mixins
\* Symbol::addMixin
addMixin(g, ref, sym) == SetData(g, ref, [dataAllowingNone(g, ref) EXCEPT !.mixins = Append(@, sym)])

Contains(list, x) == \E i \in 1..Len(list) : list[i] = x
\* variant: the position of the last occurrence
FindPosLast(list, x) ==
    IF Contains(list, x) THEN (CHOOSE i \in 1..Len(list) : list[i] = x /\ \A j \in (i + 1)..Len(list) : list[j] # x) - 1
    ELSE Len(list)
\* position of the first occurrence counted from 0, Len(list) when absent
FindPos(list, x) ==
    IF Contains(list, x) THEN (CHOOSE i \in 1..Len(list) : list[i] = x /\ \A j \in 1..(i - 1) : list[j] # x) - 1
    ELSE Len(list)
\* list.insert(list.begin() + pos, x)
InsertAt(list, pos, x) == SubSeq(list, 1, pos) \o <<x>> \o SubSeq(list, pos + 1, Len(list))

\* Symbol::derivesFrom: sym is among the mixins (searched through their own
\* mixins while the latch is not set) or is reached through the superclass
RECURSIVE DerivesFrom(_, _, _, _)
DerivesFrom(g, ref, sym, fuel) ==
    LET ms == mixins(g, ref)
        sc == superClass(g, ref)
    IN  IF fuel = 0 THEN FALSE
        ELSE \/ \E i \in 1..Len(ms) :
                   \/ ms[i] = sym
                   \/ ~isClassOrModuleLinearizationComputed(g, ref) /\ DerivesFrom(g, ms[i], sym, fuel - 1)
             \/ exists(sc) /\ (sc = sym \/ DerivesFrom(g, sc, sym, fuel - 1))
derivesFrom(g, ref, sym) == DerivesFrom(g, ref, sym, Len(g.classAndModules))

\* variant: the cursor stays where it was after an insertion
maybeAddMixinKeepsCursor(g, forSym, mixinList, mixin, parent, pos) ==
    IF forSym = mixin THEN [list |-> mixinList, pos |-> pos, status |-> "loop_in_mixins"]
    ELSE IF derivesFrom(g, parent, mixin) THEN [list |-> mixinList, pos |-> pos, status |-> "ok"]
    ELSE IF Contains(mixinList, mixin)
    THEN [list |-> mixinList,
          pos |-> IF FindPos(mixinList, mixin) >= pos THEN FindPos(mixinList, mixin) + 1 ELSE pos,
          status |-> "ok"]
    ELSE [list |-> InsertAt(mixinList, pos, mixin), pos |-> pos, status |-> "ok"]

maybeAddMixin(g, forSym, mixinList, mixin, parent, pos) ==
    IF forSym = mixin THEN [list |-> mixinList, pos |-> pos, status |-> "loop_in_mixins"]
    ELSE IF derivesFrom(g, parent, mixin) THEN [list |-> mixinList, pos |-> pos, status |-> "ok"]
    ELSE IF Contains(mixinList, mixin)
    THEN [list |-> mixinList,
          pos |-> IF FindPos(mixinList, mixin) >= pos THEN FindPos(mixinList, mixin) + 1 ELSE pos,
          status |-> "ok"]
    ELSE [list |-> InsertAt(mixinList, pos, mixin), pos |-> pos + 1, status |-> "ok"]

\* the loop over the linearized mixins of a mixin, from component j on
RECURSIVE AddComponents(_, _, _, _, _, _)
AddComponents(g, forSym, components, j, parent, st) ==
    IF st.status # "ok" \/ j > Len(components) THEN st
    ELSE AddComponents(g, forSym, components, j + 1, parent,
                       maybeAddMixin(g, forSym, st.list, components[j], parent, st.pos))

LinRes(g, diags, status) == [g |-> g, diags |-> diags, status |-> status]
WithList(r, list) == [g |-> r.g, diags |-> r.diags, status |-> r.status, list |-> list]

RECURSIVE computeClassLinearization(_, _, _, _)
RECURSIVE MixinLoop(_, _, _, _, _, _)
RECURSIVE fullLinearizationSlowImpl(_, _, _)
RECURSIVE FullMixins(_, _, _, _, _)

\* variant: the mixin goes in at the end of the list
AddModuleAtEnd(r, ofClass, mixin, newMixins) ==
    LET parent == superClass(r.g, ofClass)
        st == AddComponents(r.g, ofClass, mixins(r.g, mixin), 1, parent,
                            maybeAddMixin(r.g, ofClass, newMixins, mixin, parent, Len(newMixins)))
    IN  [g |-> r.g, diags |-> r.diags, status |-> st.status, list |-> st.list]

\* the module branch of the loop: the mixin, then its linearized mixins
AddModule(r, ofClass, mixin, newMixins) ==
    LET parent == superClass(r.g, ofClass)
        st == AddComponents(r.g, ofClass, mixins(r.g, mixin), 1, parent,
                            maybeAddMixin(r.g, ofClass, newMixins, mixin, parent, 0))
    IN  [g |-> r.g, diags |-> r.diags, status |-> st.status, list |-> st.list]

\* variant: of the full linearization only the mixin itself goes in
AddClassAlone(f, newMixins) ==
    [g |-> f.g, diags |-> f.diags, status |-> f.status, list |-> SubSeq(f.list, 1, 1) \o newMixins]

\* the class branch: a diagnostic, then the full linearization of the mixin
\* goes in front of the list
AddClass(f, newMixins) ==
    [g |-> f.g, diags |-> f.diags, status |-> f.status, list |-> f.list \o newMixins]

Diagnosed(r, ofClass, mixin) ==
    IF mixin # BasicObject
    THEN LinRes(r.g, r.diags \cup {[klass |-> ofClass, mixin |-> mixin]}, r.status)
    ELSE r

\* ParentLinearizationInformation::fullLinearizationSlow, r being the result
\* of the computeClassLinearization call that made the information
fullLinearizationSlow(r, klass, active) == fullLinearizationSlowImpl(WithList(r, <<>>), klass, active)

\* variant: a module mixin is linearized and then left out of the new list
AfterMixinDropsModule(r, ofClass, mixin, newMixins, active) ==
    IF r.status # "ok" THEN WithList(r, newMixins)
    ELSE IF ~isClassOrModuleModule(r.g, mixin)
    THEN AddClass(fullLinearizationSlow(Diagnosed(r, ofClass, mixin), mixin, active), newMixins)
    ELSE WithList(r, newMixins)

\* one round of the loop for a mixin whose linearization r has been computed
AfterMixin(r, ofClass, mixin, newMixins, active) ==
    IF r.status # "ok" THEN WithList(r, newMixins)
    ELSE IF ~isClassOrModuleModule(r.g, mixin)
    THEN AddClass(fullLinearizationSlow(Diagnosed(r, ofClass, mixin), mixin, active), newMixins)
    ELSE AddModule(r, ofClass, mixin, newMixins)

\* for (auto mixin : currentMixins), from mixin i on; r carries newMixins
MixinLoop(r, ofClass, currentMixins, i, active, stubs) ==
    IF r.status # "ok" \/ i > Len(currentMixins) THEN r
    ELSE IF currentMixins[i] = superClass(r.g, ofClass)
    THEN MixinLoop(r, ofClass, currentMixins, i + 1, active, stubs)
    ELSE IF superClass(r.g, currentMixins[i]) \in stubs
    THEN MixinLoop(WithList(r, Append(r.list, currentMixins[i])), ofClass, currentMixins, i + 1, active, stubs)
    ELSE MixinLoop(AfterMixin(computeClassLinearization(r.g, r.diags, currentMixins[i], active),
                              ofClass, currentMixins[i], r.list, active),
                   ofClass, currentMixins, i + 1, active, stubs)

\* variant: the new list is written and the latch is left as it was
LinearizedNoLatch(l, ofClass, currentMixins) ==
    LET g1 == SetData(l.g, ofClass, [dataAllowingNone(l.g, ofClass) EXCEPT !.mixins = l.list])
    IN  IF l.status # "ok" THEN LinRes(l.g, l.diags, l.status)
        ELSE IF \A i \in 1..Len(currentMixins) : derivesFrom(g1, ofClass, currentMixins[i])
        THEN LinRes(g1, l.diags, "ok")
        ELSE LinRes(g1, l.diags, "no_longer_derives")

\* data->mixins() = newMixins, the latch, and the check of the debug build
\* that ofClass still derives from every declared mixin
Linearized(l, ofClass, currentMixins) ==
    LET g1 == SetData(l.g, ofClass, [dataAllowingNone(l.g, ofClass) EXCEPT !.mixins = l.list])
        g2 == setClassOrModuleLinearizationComputed(g1, ofClass)
    IN  IF l.status # "ok" THEN LinRes(l.g, l.diags, l.status)
        ELSE IF \A i \in 1..Len(currentMixins) : derivesFrom(g2, ofClass, currentMixins[i])
        THEN LinRes(g2, l.diags, "ok")
        ELSE LinRes(g2, l.diags, "no_longer_derives")

\* the body run while the latch is not set, s being the result of the call
\* for the superclass
Linearize(s, ofClass, active) ==
    IF s.status # "ok" THEN s
    ELSE Linearized(MixinLoop(WithList(s, <<>>), ofClass, mixins(s.g, ofClass), 1, active,
                              {StubSuperClass, StubModule}),
                    ofClass, mixins(s.g, ofClass))

\* variant: the latch is not consulted
computeClassLinearizationNoLatch(g, diags, ofClass, active) ==
    IF ~exists(ofClass) \/ ~isClassOrModule(g, ofClass) THEN LinRes(g, diags, "bad_args")
    ELSE IF ofClass \in active THEN LinRes(g, diags, "hang")
    ELSE IF exists(superClass(g, ofClass))
    THEN Linearize(computeClassLinearization(g, diags, superClass(g, ofClass), active \cup {ofClass}),
                   ofClass, active \cup {ofClass})
    ELSE Linearize(LinRes(g, diags, "ok"), ofClass, active \cup {ofClass})

computeClassLinearization(g, diags, ofClass, active) ==
    IF ~exists(ofClass) \/ ~isClassOrModule(g, ofClass) THEN LinRes(g, diags, "bad_args")
    ELSE IF isClassOrModuleLinearizationComputed(g, ofClass) THEN LinRes(g, diags, "ok")
    ELSE IF ofClass \in active THEN LinRes(g, diags, "hang")
    ELSE IF exists(superClass(g, ofClass))
    THEN Linearize(computeClassLinearization(g, diags, superClass(g, ofClass), active \cup {ofClass}),
                   ofClass, active \cup {ofClass})
    ELSE Linearize(LinRes(g, diags, "ok"), ofClass, active \cup {ofClass})

\* variant: the superclass is walked whether or not acc holds it
FullSuperClassUnchecked(f, klass, active) ==
    IF f.status # "ok" THEN f
    ELSE IF exists(superClass(f.g, klass))
    THEN fullLinearizationSlowImpl(
             WithList(computeClassLinearization(f.g, f.diags, superClass(f.g, klass), active), f.list),
             superClass(f.g, klass), active)
    ELSE f

\* the superclass part of fullLinearizationSlowImpl
FullSuperClass(f, klass, active) ==
    IF f.status # "ok" THEN f
    ELSE IF exists(superClass(f.g, klass)) /\ ~Contains(f.list, superClass(f.g, klass))
    THEN fullLinearizationSlowImpl(
             WithList(computeClassLinearization(f.g, f.diags, superClass(f.g, klass), active), f.list),
             superClass(f.g, klass), active)
    ELSE f

\* for (auto m : info.mixins), from mixin i on; f carries acc
FullMixins(f, klass, ms, i, active) ==
    IF f.status # "ok" \/ i > Len(ms) THEN f
    ELSE IF Contains(f.list, ms[i]) THEN FullMixins(f, klass, ms, i + 1, active)
    ELSE IF isClassOrModuleModule(f.g, ms[i])
    THEN FullMixins(WithList(f, Append(f.list, ms[i])), klass, ms, i + 1, active)
    ELSE FullMixins(fullLinearizationSlowImpl(
                        WithList(computeClassLinearization(f.g, f.diags, ms[i], active), f.list),
                        ms[i], active),
                    klass, ms, i + 1, active)

\* f carries acc; info is the linearization of klass
fullLinearizationSlowImpl(f, klass, active) ==
    IF f.status # "ok" THEN f
    ELSE IF Contains(f.list, klass) THEN WithList(LinRes(f.g, f.diags, "bad_args"), f.list)
    ELSE FullSuperClass(FullMixins(WithList(f, Append(f.list, klass)), klass, mixins(f.g, klass), 1, active),
                        klass, active)

\* Resolver::computeLinearization, from class i on
RECURSIVE ComputeFrom(_, _)
ComputeFrom(r, i) ==
    IF r.status # "ok" \/ i >= Len(r.g.classAndModules) THEN r
    ELSE ComputeFrom(computeClassLinearization(r.g, r.diags, Ref("ClassOrModule", i), {}), i + 1)
computeLinearization(g) == ComputeFrom(LinRes(g, {}, "ok"), 1)

(***************************************************************************)
(* Type-member resolution (resolver).  A pass carries, next to the         *)
(* GlobalState, the alias table (one list of pairs per class), the set of  *)
(* classes whose resolved latch is set and the diagnostics in the order    *)
(* they are emitted.  Result types and locations are not held by the       *)
(* model, so the bounds given to a placeholder and the fix of the attached *)
(* class (lines 1132-1147) leave no trace.                                 *)
(***************************************************************************)
typeMembers(g, ref) == dataAllowingNone(g, ref).typeParams
isTypeMember(g, ref) == "TYPE_MEMBER" \in dataAllowingNone(g, ref).flags
isTypeArgument(g, ref) == "TYPE_ARGUMENT" \in dataAllowingNone(g, ref).flags
isClassOrModuleClass(g, ref) == "CLASS" \in dataAllowingNone(g, ref).flags
varianceOf(g, ref) ==
    IF "TYPE_COVARIANT" \in dataAllowingNone(g, ref).flags THEN "CoVariant"
    ELSE IF "TYPE_CONTRAVARIANT" \in dataAllowingNone(g, ref).flags THEN "ContraVariant"
    ELSE "Invariant"
setFixed(g, ref) == SetData(g, ref, [dataAllowingNone(g, ref) EXCEPT !.flags = @ \cup {"FIXED"}])

\* the second component of the first pair of the list whose first component
\* is tparam, noSymbol when there is none
AliasOf(list, tparam) ==
    IF \E i \in 1..Len(list) : list[i][1] = tparam
    THEN list[CHOOSE i \in 1..Len(list) : list[i][1] = tparam /\ \A j \in 1..(i - 1) : list[j][1] # tparam][2]
    ELSE noSymbol

RECURSIVE dealiasAt(_, _, _, _, _)
RECURSIVE DealiasFrom(_, _, _, _, _, _)
\* the while loop of dealiasAt; fuel bounds the walk and the recursion, a
\* walk that exhausts it does not end
DealiasFrom(g, tparam, klass, typeAliases, cursor, fuel) ==
    IF ~exists(cursor) THEN SymRes(g, cursor, "ok")
    ELSE IF fuel = 0 THEN SymRes(g, noSymbol, "hang")
    ELSE IF exists(AliasOf(typeAliases[cursor.idx + 1], tparam))
    THEN dealiasAt(g, AliasOf(typeAliases[cursor.idx + 1], tparam), klass, typeAliases, fuel - 1)
    ELSE DealiasFrom(g, tparam, klass, typeAliases, superClass(g, cursor), fuel - 1)

dealiasAt(g, tparam, klass, typeAliases, fuel) ==
    IF ~isTypeMember(g, tparam) THEN SymRes(g, noSymbol, "bad_args")
    ELSE IF dataAllowingNone(g, tparam).owner = klass THEN SymRes(g, tparam, "ok")
    ELSE IF derivesFrom(g, dataAllowingNone(g, tparam).owner, klass)
    THEN DealiasFrom(g, tparam, klass, typeAliases, dataAllowingNone(g, tparam).owner, fuel)
    ELSE IF derivesFrom(g, klass, dataAllowingNone(g, tparam).owner)
    THEN DealiasFrom(g, tparam, klass, typeAliases, klass, fuel)
    ELSE DealiasFrom(g, tparam, klass, typeAliases, noSymbol, fuel)

\* the state of a pass.  Three fields record the course of the pass and are
\* read by no step of it: begun, the symbols in the order their latch was
\* set; done, the symbols whose call has returned; early, the pairs (sym,
\* parent) for which a type member of parent was matched against sym while
\* the call for parent had not returned
Pass(g, pg, diags) ==
    [g |-> g, pg |-> pg, diags |-> diags, errors |-> <<>>, status |-> "ok",
     typeAliases |-> [i \in 1..Len(g.classAndModules) |-> <<>>], resolved |-> {},
     found |-> TRUE, foundAll |-> TRUE, begun |-> <<>>, done |-> {}, early |-> {}]
\* resolved[sym.classOrModuleIndex()] = true
Begun(t, sym) == [t EXCEPT !.resolved = @ \cup {sym}, !.begun = Append(@, sym)]
\* the call for sym returns
Returned(t, sym) == IF t.status # "ok" THEN t ELSE [t EXCEPT !.done = @ \cup {sym}]
\* a type member of parent is about to be matched against sym
Reading(t, parent, sym) == IF parent \in t.done THEN t ELSE [t EXCEPT !.early = @ \cup {<<sym, parent>>}]

\* gs.beginError
Reported(t, code, sym, parent, name) ==
    [t EXCEPT !.errors = Append(@, [code |-> code, klass |-> sym, parent |-> parent, name |-> name])]

\* the placeholder r that enterTypeMember returned is fixed; no alias
Placeholder(t, r) ==
    IF r.status # "ok" THEN [t EXCEPT !.g = r.g, !.status = r.status, !.found = FALSE]
    ELSE [t EXCEPT !.g = setFixed(r.g, r.ret), !.found = FALSE]

\* the replacement is entered as a covariant type member
SynthesizedCoVariant(t, sym, n) ==
    IF n.status # "ok" THEN [t EXCEPT !.g = n.g, !.pg = n.pg, !.status = n.status, !.found = FALSE]
    ELSE Placeholder([t EXCEPT !.g = n.g, !.pg = n.pg], enterTypeMember(n.g, sym, n.ret, "CoVariant"))

\* the placeholder under the name n that freshNameUnique returned
Synthesized(t, sym, n) ==
    IF n.status # "ok" THEN [t EXCEPT !.g = n.g, !.pg = n.pg, !.status = n.status, !.found = FALSE]
    ELSE Placeholder([t EXCEPT !.g = n.g, !.pg = n.pg], enterTypeMember(n.g, sym, n.ret, "Invariant"))

\* the alias is recorded whatever the variances are
MatchedWithoutVarianceTest(t, parent, parentTypeMember, sym, my) ==
    [t EXCEPT !.typeAliases[sym.idx + 1] = Append(@, <<parentTypeMember, my>>), !.found = TRUE]

\* my is a type parameter of sym: the variance test, then the alias
Matched(t, parent, parentTypeMember, sym, my) ==
    IF /\ ~derivesFrom(t.g, sym, Class)
       /\ varianceOf(t.g, my) # varianceOf(t.g, parentTypeMember)
       /\ varianceOf(t.g, my) # "Invariant"
    THEN [Reported(t, "ParentVarianceMismatch", sym, parent, dataAllowingNone(t.g, parentTypeMember).name)
             EXCEPT !.found = FALSE]
    ELSE [t EXCEPT !.typeAliases[sym.idx + 1] = Append(@, <<parentTypeMember, my>>), !.found = TRUE]

\* Enumerable is not among the built-in classes of the model, so the code of
\* the first diagnostic is always ParentTypeNotDeclared
resolveTypeMember(t, parent, parentTypeMember, sym, name) ==
    IF t.status # "ok" THEN t
    ELSE IF ~exists(findMember(t.g, sym, name))
    THEN Placeholder(Reported(t, "ParentTypeNotDeclared", sym, parent, name),
                     enterTypeMember(t.g, sym, name, "Invariant"))
    ELSE IF ~isTypeMember(t.g, findMember(t.g, sym, name)) /\ ~isTypeArgument(t.g, findMember(t.g, sym, name))
    THEN Synthesized(Reported(t, "NotATypeVariable", sym, parent, name), sym,
                     freshNameUnique(t.g, t.pg, "TypeVarName", name, 1))
    ELSE Matched(t, parent, parentTypeMember, sym, findMember(t.g, sym, name))

RECURSIVE resolveTypeMembers(_, _)
RECURSIVE ParentMembers(_, _, _, _, _)
RECURSIVE OrderLoop(_, _, _, _)
RECURSIVE MixinsLoop(_, _, _, _)

\* foundAll = foundAll && foundThis
FoundAll(r, foundAll) == [r EXCEPT !.foundAll = foundAll /\ r.found]

\* for (tp : tps) resolveTypeMember(gs, parent, tp, sym, typeAliases), from
\* type member i on
ParentMembers(t, parent, tps, i, sym) ==
    IF t.status # "ok" \/ i > Len(tps) THEN t
    ELSE ParentMembers(FoundAll(resolveTypeMember(Reading(t, parent, sym), parent, tps[i], sym,
                                                  dataAllowingNone(t.g, tps[i]).name),
                                t.foundAll),
                       parent, tps, i + 1, sym)

\* a swap that loses the member at position i
SwapOverwrites(list, i, j) == [list EXCEPT ![i] = list[j]]

\* swap(typeMembers()[foundIdx], typeMembers()[i]), positions counted from 1
Swap(list, i, j) == [list EXCEPT ![i] = list[j], ![j] = list[i]]

\* one round of the order check: my is what dealiasAt returned for the
\* parent's type member at position i.  Reading the list of sym past its
\* end is the status out_of_range.
OrderStep(t, sym, i, my) ==
    IF my.status # "ok" THEN [t EXCEPT !.status = my.status]
    ELSE IF ~exists(my.ret) THEN [t EXCEPT !.status = "no_alias"]
    ELSE IF i > Len(typeMembers(t.g, sym)) THEN [t EXCEPT !.status = "out_of_range"]
    ELSE IF typeMembers(t.g, sym)[i] = my.ret THEN t
    ELSE IF ~Contains(typeMembers(t.g, sym), my.ret)
    THEN [Reported(t, "TypeMembersInWrongOrder", sym, superClass(t.g, sym), dataAllowingNone(t.g, my.ret).name)
             EXCEPT !.status = "not_found"]
    ELSE [Reported(t, "TypeMembersInWrongOrder", sym, superClass(t.g, sym), dataAllowingNone(t.g, my.ret).name)
             EXCEPT !.g = SetData(t.g, sym,
                                  [dataAllowingNone(t.g, sym) EXCEPT
                                      !.typeParams = Swap(@, i, FindPos(@, my.ret) + 1)])]

OrderLoop(t, sym, tps, i) ==
    IF t.status # "ok" \/ i > Len(tps) THEN t
    ELSE OrderLoop(OrderStep(t, sym, i, dealiasAt(t.g, tps[i], sym, t.typeAliases, 2 * Len(t.g.classAndModules))),
                   sym, tps, i + 1)

\* the type members of the superclass, p being the pass after the superclass
\* has been resolved
AfterParent(p, sym, parent, tps) ==
    IF p.status = "ok" /\ p.foundAll THEN OrderLoop(p, sym, tps, 1) ELSE p
ResolveSuper(p, sym, parent) ==
    IF p.status # "ok" THEN p
    ELSE AfterParent(ParentMembers([p EXCEPT !.foundAll = TRUE], parent, typeMembers(p.g, parent), 1, sym),
                     sym, parent, typeMembers(p.g, parent))

\* variant: the type members of a mixin are passed over
MixinMembersSkipped(m, mixin, sym) == m

\* the type members of a mixin, m being the pass after the mixin has been
\* resolved
MixinMembers(m, mixin, sym) ==
    IF m.status # "ok" THEN m ELSE ParentMembers(m, mixin, typeMembers(m.g, mixin), 1, sym)

\* for (mixin : mixins), from mixin i on
MixinsLoop(t, sym, ms, i) ==
    IF t.status # "ok" \/ i > Len(ms) THEN t
    ELSE MixinsLoop(MixinMembers(resolveTypeMembers(t, ms[i]), ms[i], sym), sym, ms, i + 1)

\* a class with a type member that is not invariant: one diagnostic.  No
\* name of the model is AttachedClass and no symbol comes from the payload.
VarianceChecked(t, sym) ==
    IF /\ t.status = "ok"
       /\ isClassOrModuleClass(t.g, sym)
       /\ \E i \in 1..Len(typeMembers(t.g, sym)) : varianceOf(t.g, typeMembers(t.g, sym)[i]) # "Invariant"
    THEN Reported(t, "VariantTypeMemberInClass", sym, noSymbol, noName)
    ELSE t

\* the mixins of sym, s being the pass after its superclass has been handled
ResolveMixins(s, sym) ==
    IF s.status # "ok" THEN s ELSE VarianceChecked(MixinsLoop(s, sym, mixins(s.g, sym), 1), sym)

\* variant: the latch is set and never consulted
resolveTypeMembersNoLatch(t, sym) ==
    IF t.status # "ok" THEN t
    ELSE IF ~isClassOrModule(t.g, sym) THEN [t EXCEPT !.status = "bad_args"]
    ELSE IF exists(superClass(t.g, sym))
    THEN Returned(ResolveMixins(ResolveSuper(resolveTypeMembers(Begun(t, sym), superClass(t.g, sym)),
                                             sym, superClass(t.g, sym)),
                                sym),
                  sym)
    ELSE Returned(ResolveMixins(Begun(t, sym), sym), sym)

resolveTypeMembers(t, sym) ==
    IF t.status # "ok" THEN t
    ELSE IF ~isClassOrModule(t.g, sym) THEN [t EXCEPT !.status = "bad_args"]
    ELSE IF sym \in t.resolved THEN t
    ELSE IF exists(superClass(t.g, sym))
    THEN Returned(ResolveMixins(ResolveSuper(resolveTypeMembers(Begun(t, sym), superClass(t.g, sym)),
                                             sym, superClass(t.g, sym)),
                                sym),
                  sym)
    ELSE Returned(ResolveMixins(Begun(t, sym), sym), sym)

\* the last loop of finalizeSymbols, from class i on
RECURSIVE ResolveFrom(_, _)
ResolveFrom(t, i) ==
    IF t.status # "ok" \/ i >= Len(t.g.classAndModules) THEN t
    ELSE ResolveFrom(resolveTypeMembers(t, Ref("ClassOrModule", i)), i + 1)

\* Resolver::finalizeSymbols.  Its first loop looks every mixin up for a
\* member named classMethods; the registered names of the model do not
\* include that name, so the loop finds none and changes nothing.
ResolvedAfter(l, pg) ==
    IF l.status # "ok" THEN [Pass(l.g, pg, l.diags) EXCEPT !.status = l.status]
    ELSE ResolveFrom(Pass(l.g, pg, l.diags), 1)
finalizeSymbols(g, pg) == ResolvedAfter(computeLinearization(g), pg)

\* Class and module definitions.  A program of three definitions: each
\* enters a class under the root or under the first definition, then gives
\* it its kind and its superclass: a class under Object, a stub class under
\* StubSuperClass, or a module.  A module takes BasicObject, the superclass
\* of the implicit superclass of modules, which the cut built-in list does
\* not hold.
Definitions ==
    << [owner |-> root, name |-> BootConstant(1)],
       [owner |-> root, name |-> BootConstant(4)],
       [owner |-> Ref("ClassOrModule", BootClassCount), name |-> BootConstant(1)] >>
\* references the mixin lists hold when a mixin is declared
MaxMixins == 2
Roles == {"class", "stub", "module"}
UserClasses(g) == {ref \in RefsOf(g, "ClassOrModule") : ref.idx >= BootClassCount}
DeclOwner(k) == Definitions[k].owner
DeclName(k) == Definitions[k].name
RoleSuperClass(role) ==
    IF role = "class" THEN Object
    ELSE IF role = "stub" THEN StubSuperClass
    ELSE IF role = "meta" THEN Class
    ELSE BasicObject

Declared(r, role) ==
    IF r.status # "ok" THEN r
    ELSE SymRes(setSuperClass(setIsModule(r.g, r.ret, role = "module"), r.ret, RoleSuperClass(role)),
                r.ret, "ok")

DeclareStep(k, role, r) ==
    /\ gs' = r.g
    /\ pc' = PcAfter(r.status)
    /\ last' = SymCall("enterClassSymbol", r.status, r.ret, FALSE, DeclOwner(k), DeclName(k), "Invariant")
    /\ UNCHANGED <<pages, interned, other>>

DeclareClass ==
    /\ pc = "ready"
    /\ ~gs.symbolTableFrozen
    /\ Cardinality(UserClasses(gs)) < Len(Definitions)
    /\ \E role \in Roles :
           DeclareStep(Cardinality(UserClasses(gs)) + 1, role,
                       Declared(enterClassSymbol(gs, DeclOwner(Cardinality(UserClasses(gs)) + 1),
                                                 DeclName(Cardinality(UserClasses(gs)) + 1)),
                                role))

\* references held by the mixin lists
RECURSIVE MixinTotal(_, _)
MixinTotal(g, i) ==
    IF i > Len(g.classAndModules) THEN 0 ELSE Len(g.classAndModules[i].mixins) + MixinTotal(g, i + 1)

\* a mixin declared on a class that is not linearized yet: a definition or
\* Object, the mixin being any definition
AddMixin ==
    /\ pc = "ready"
    /\ MixinTotal(gs, 1) < MaxMixins
    /\ \E klass \in UserClasses(gs) \cup {Object}, mixin \in UserClasses(gs) :
           /\ ~isClassOrModuleLinearizationComputed(gs, klass)
           /\ gs' = addMixin(gs, klass, mixin)
           /\ last' = SymCall("addMixin", "ok", klass, FALSE, noSymbol, noName, "Invariant")
    /\ UNCHANGED <<pages, pc, interned, other>>

\* `hit` records that the call found the latch set: the latch of the class
\* for computeClassLinearization, of every definition for computeLinearization
LinStep(op, klass, hit, r) ==
    /\ gs' = r.g
    /\ pc' = PcAfter(r.status)
    /\ last' = [SymCall(op, r.status, klass, hit, noSymbol, noName, "Invariant") EXCEPT !.diags = r.diags]
    /\ UNCHANGED <<pages, interned, other>>

ComputeClassLinearization ==
    /\ pc = "ready"
    /\ \E ofClass \in UserClasses(gs) :
           LinStep("computeClassLinearization", ofClass, isClassOrModuleLinearizationComputed(gs, ofClass),
                   computeClassLinearization(gs, {}, ofClass, {}))

ComputeLinearization ==
    /\ pc = "ready"
    /\ LinStep("computeLinearization", noSymbol,
               \A klass \in UserClasses(gs) : isClassOrModuleLinearizationComputed(gs, klass),
               computeLinearization(gs))

\* Modules and their includes: every definition is a module, and a module
\* or Object takes up to MaxIncludes includes in all before anything is
\* linearized.
MaxIncludes == 4

DeclareModule ==
    /\ pc = "ready"
    /\ ~gs.symbolTableFrozen
    /\ Cardinality(UserClasses(gs)) < Len(Definitions)
    /\ DeclareStep(Cardinality(UserClasses(gs)) + 1, "module",
                   Declared(enterClassSymbol(gs, DeclOwner(Cardinality(UserClasses(gs)) + 1),
                                             DeclName(Cardinality(UserClasses(gs)) + 1)),
                            "module"))

IncludeModule ==
    /\ pc = "ready"
    /\ MixinTotal(gs, 1) < MaxIncludes
    /\ \A klass \in UserClasses(gs) \cup {Object} : ~isClassOrModuleLinearizationComputed(gs, klass)
    /\ \E klass \in UserClasses(gs) \cup {Object}, mixin \in UserClasses(gs) :
           /\ gs' = addMixin(gs, klass, mixin)
           /\ last' = SymCall("addMixin", "ok", klass, FALSE, noSymbol, noName, "Invariant")
    /\ UNCHANGED <<pages, pc, interned, other>>

\* Members declared on Object and on the definitions: invariant and
\* covariant type members and methods under two plain names.
MaxMembers == 2
MemberOps == {"enterTypeMember", "enterMethodSymbol"}
MemberNames == {BootUTF8(1), BootUTF8(2)}
MemberOwners(g) == UserClasses(g) \cup {Object}
MemberVariances(op) == IF op = "enterTypeMember" THEN {"Invariant", "CoVariant"} ELSE {"Invariant"}
MemberStep(op, owner, name, variance, r) ==
    /\ gs' = r.g
    /\ pc' = PcAfter(r.status)
    /\ last' = SymCall(op, r.status, r.ret, r.status = "ok" /\ symbolsUsedTotal(r.g) = symbolsUsedTotal(gs),
                       owner, name, variance)
    /\ UNCHANGED <<pages, interned, other>>

DeclareMember ==
    /\ pc = "ready"
    /\ Len(gs.typeMembers) + Len(gs.methods) < MaxMembers
    /\ \E op \in MemberOps, owner \in MemberOwners(gs), name \in MemberNames :
           \E variance \in MemberVariances(op) :
               MemberStep(op, owner, name, variance, Enter(gs, op, owner, name, variance))

\* Type members declared on Object and on the definition under three names,
\* enough of them for a child to hold the names of its parent in another
\* order
MaxTypeMembers == 4
TypeMemberNames == {BootUTF8(1), BootUTF8(2), BootUTF8(3)}
\* the first name is declared with either variance
TypeMemberVariances(name) == IF name = BootUTF8(1) THEN {"Invariant", "CoVariant"} ELSE {"Invariant"}
DeclareTypeMember ==
    /\ pc = "ready"
    /\ Len(gs.typeMembers) < MaxTypeMembers
    /\ \E owner \in MemberOwners(gs), name \in TypeMemberNames :
           \E variance \in TypeMemberVariances(name) :
               MemberStep("enterTypeMember", owner, name, variance, enterTypeMember(gs, owner, name, variance))

\* A class whose superclass is Class, and type members of every variance
\* under one name on Object, BasicObject, Class and the definition.
DeclareClassOfClass ==
    /\ pc = "ready"
    /\ ~gs.symbolTableFrozen
    /\ DeclareStep(1, "meta", Declared(enterClassSymbol(gs, DeclOwner(1), DeclName(1)), "meta"))
DeclareVariantMember ==
    /\ pc = "ready"
    /\ Len(gs.typeMembers) < MaxMembers
    /\ \E owner \in UserClasses(gs) \cup {Object, BasicObject, Class}, variance \in Variances :
           MemberStep("enterTypeMember", owner, BootUTF8(1), variance,
                      enterTypeMember(gs, owner, BootUTF8(1), variance))

\* one pass of Resolver::finalizeSymbols
FinalizeStep(r) ==
    /\ namesUsed(r.g) <= MaxNames
    /\ gs' = r.g
    /\ pages' = r.pg
    /\ pc' = PcAfter(r.status)
    /\ last' = [SymCall("finalizeSymbols", r.status, noSymbol, FALSE, noSymbol, noName, "Invariant")
                   EXCEPT !.diags = r.diags, !.errors = r.errors, !.aliases = r.typeAliases]
    /\ interned' = interned \cup {[key |-> KeyOf(r.g, r.pg, id), id |-> id] :
                                      id \in namesUsed(gs)..(namesUsed(r.g) - 1)}
    /\ UNCHANGED other

FinalizeSymbols ==
    /\ pc = "ready"
    /\ FinalizeStep(finalizeSymbols(gs, pages))

(***************************************************************************)
(* deepCopy: a second GlobalState is constructed and filled field by       *)
(* field.  The vector of page pointers is copied, so the pages themselves  *)
(* are shared; the guards and wasModified_ are not assigned and keep what  *)
(* the constructor gave them.                                              *)
(***************************************************************************)
IsPowerOfTwo(n) == \E k \in 0..16 : 2 ^ k = n

\* the ENFORCEs of sanityCheck on the tables themselves
sanityCheck(g) ==
    /\ Len(g.names) > 0
    /\ Len(g.strings) > 0
    /\ Len(g.namesByHash) > 0
    /\ IsPowerOfTwo(Len(g.namesByHash))
    /\ g.namesCapacity * 2 = Len(g.namesByHash)

\* GlobalState::preallocateTables, the name table part: expandNames begins
\* with sanityCheck, whose ENFORCEs are fatal on a GlobalState that has not
\* been through initEmpty.  The arenas of the model have no capacity, so
\* the five reserve calls leave no trace.
preallocateTables(g, nameSize) ==
    IF ~sanityCheck(g) THEN [g |-> g, status |-> "enforce"]
    ELSE [g |-> expandNames(g, nextPowerOfTwo(nameSize)), status |-> "ok"]

\* the sizes preallocateTables is called with: none, less than the
\* capacity, a power of two above it, and a number that is rounded up
NameSizes == {0, 3, 2 * PAYLOAD_MAX_NAME_COUNT, 2 * PAYLOAD_MAX_NAME_COUNT + 1}
PreallocateTables ==
    /\ pc \in {"constructed", "ready"}
    /\ \E nameSize \in NameSizes :
           LET r == preallocateTables(gs, nameSize)
           IN  /\ gs' = r.g
               /\ pc' = PcAfter(r.status)
               /\ last' = [NoCall EXCEPT !.op = "preallocateTables", !.status = r.status]
    /\ UNCHANGED <<pages, interned, other>>

\* Name::deepCopy: a name of the same kind; a UTF8 name keeps its view into
\* the shared pages, the others refer to their original by the same id
NameDeepCopy(nm) ==
    IF nm.kind = "UTF8" THEN UTF8Name(nm.utf8)
    ELSE IF nm.kind = "CONSTANT" THEN ConstantName(nm.original)
    ELSE UniqueName(nm.uniqueNameKind, nm.original, nm.num)

\* Symbol::deepCopy: every field is copied; the member table is rebuilt
\* entry by entry under the same name ids
SymbolDeepCopy(sym, keepId) ==
    [name |-> sym.name, owner |-> sym.owner, flags |-> sym.flags,
     members |-> IF keepId THEN sym.members ELSE [n \in DOMAIN sym.members |-> sym.members[n]],
     typeParams |-> sym.typeParams, superClass |-> sym.superClass, mixins |-> sym.mixins,
     arguments |-> sym.arguments]

SymbolsDeepCopy(syms, keepId) == [i \in 1..Len(syms) |-> SymbolDeepCopy(syms[i], keepId)]

\* deepCopy whose copy goes on filling the last page of the original
deepCopyKeepsLastPageUsed(g, keepId, id) ==
    LET result == NewGlobalState(id)
    IN  IF ~sanityCheck(g) THEN [g |-> result, status |-> "enforce"]
        ELSE [g |-> [result EXCEPT
                        !.globalStateId = IF keepId THEN g.globalStateId ELSE result.globalStateId,
                        !.strings = g.strings,
                        !.stringsLastPageUsed = g.stringsLastPageUsed,
                        !.files = g.files,
                        !.namesCapacity = g.namesCapacity,
                        !.names = IF keepId THEN g.names
                                  ELSE [i \in 1..Len(g.names) |-> NameDeepCopy(g.names[i])],
                        !.namesByHash = g.namesByHash,
                        !.classAndModules = SymbolsDeepCopy(g.classAndModules, keepId),
                        !.methods = SymbolsDeepCopy(g.methods, keepId),
                        !.fields = SymbolsDeepCopy(g.fields, keepId),
                        !.typeArguments = SymbolsDeepCopy(g.typeArguments, keepId),
                        !.typeMembers = SymbolsDeepCopy(g.typeMembers, keepId)],
              status |-> "ok"]

\* deepCopy that leaves the hash table as the constructor made it
deepCopyWithoutNamesByHash(g, keepId, id) ==
    LET result == NewGlobalState(id)
    IN  IF ~sanityCheck(g) THEN [g |-> result, status |-> "enforce"]
        ELSE [g |-> [result EXCEPT
                        !.globalStateId = IF keepId THEN g.globalStateId ELSE result.globalStateId,
                        !.strings = g.strings,
                        !.stringsLastPageUsed = STRINGS_PAGE_SIZE,
                        !.files = g.files,
                        !.names = IF keepId THEN g.names
                                  ELSE [i \in 1..Len(g.names) |-> NameDeepCopy(g.names[i])],
                        !.classAndModules = SymbolsDeepCopy(g.classAndModules, keepId),
                        !.methods = SymbolsDeepCopy(g.methods, keepId),
                        !.fields = SymbolsDeepCopy(g.fields, keepId),
                        !.typeArguments = SymbolsDeepCopy(g.typeArguments, keepId),
                        !.typeMembers = SymbolsDeepCopy(g.typeMembers, keepId)],
              status |-> "ok"]

\* id: the value the constructor of the result draws from globalStateIdCounter
deepCopy(g, keepId, id) ==
    LET result == NewGlobalState(id)
    IN  IF ~sanityCheck(g) THEN [g |-> result, status |-> "enforce"]
        ELSE [g |-> [result EXCEPT
                        !.globalStateId = IF keepId THEN g.globalStateId ELSE result.globalStateId,
                        !.strings = g.strings,
                        !.stringsLastPageUsed = STRINGS_PAGE_SIZE,
                        !.files = g.files,
                        !.namesCapacity = g.namesCapacity,
                        !.names = IF keepId THEN g.names
                                  ELSE [i \in 1..Len(g.names) |-> NameDeepCopy(g.names[i])],
                        !.namesByHash = g.namesByHash,
                        !.classAndModules = SymbolsDeepCopy(g.classAndModules, keepId),
                        !.methods = SymbolsDeepCopy(g.methods, keepId),
                        !.fields = SymbolsDeepCopy(g.fields, keepId),
                        !.typeArguments = SymbolsDeepCopy(g.typeArguments, keepId),
                        !.typeMembers = SymbolsDeepCopy(g.typeMembers, keepId)],
              status |-> "ok"]

DeepCopyStep(keepId, r) ==
    /\ other' = IF r.status = "ok"
                THEN [g |-> r.g, isCopy |-> TRUE, keepId |-> keepId,
                      globalStateIdCounter |-> other.globalStateIdCounter + 1]
                ELSE other
    /\ pc' = PcAfter(r.status)
    /\ last' = [NoCall EXCEPT !.op = "deepCopy", !.status = r.status, !.hit = keepId]
    /\ UNCHANGED <<gs, pages, interned>>

\* one copy is made in a run
DeepCopy ==
    /\ pc \in {"constructed", "ready"}
    /\ other.g = NoGlobalState
    /\ \E keepId \in BOOLEAN : DeepCopyStep(keepId, deepCopy(gs, keepId, other.globalStateIdCounter))

\* a copy has been made
Copied == other.g # NoGlobalState
\* the other GlobalState has no definition and has not been linearized
OtherUntouched ==
    /\ Copied
    /\ UserClasses(other.g) = {}
    /\ ~isClassOrModuleLinearizationComputed(other.g, Object)

\* the caller turns to the other GlobalState: the following calls receive it
OperateOnOther ==
    /\ pc = "ready"
    /\ other.g # NoGlobalState
    /\ gs' = other.g
    /\ other' = [other EXCEPT !.g = gs, !.isCopy = ~other.isCopy]
    /\ last' = [NoCall EXCEPT !.op = "operateOnOther"]
    /\ UNCHANGED <<pages, pc, interned>>

(***************************************************************************)
(* Specifications.  SpecNames runs the name table, SpecSyms the symbol     *)
(* store, Spec both.                                                       *)
(***************************************************************************)
InitEmpty == InitEmptyBegin \/ InitEmptySynthesize \/ InitEmptyStubs \/ InitEmptyEnd

NameGuards == FreezeNameTable \/ UnfreezeNameTable
SymbolGuards == FreezeSymbolTable \/ UnfreezeSymbolTable
FileGuards == FreezeFileTable \/ UnfreezeFileTable

Interns == EnterNameUTF8 \/ EnterNameConstant \/ EnterNameConstantStr \/ FreshNameUnique
Lookups == LookupNameUTF8 \/ LookupNameConstant \/ LookupNameConstantStr \/ LookupNameUnique

\* the declarations of one program
MaxDecls == 4

DeclaredMembers(g) == Len(g.typeMembers) + Len(g.methods)

\* no resolver pass has run yet and another declaration fits
Declaring ==
    /\ pc = "ready"
    /\ ~isClassOrModuleLinearizationComputed(gs, Object)
    /\ Cardinality(UserClasses(gs)) + DeclaredMembers(gs) + MixinTotal(gs, 1) < MaxDecls

NextNames == InitEmpty \/ NameGuards \/ Interns \/ Lookups
NextSyms == InitEmpty \/ SymbolGuards \/ EnterCall \/ EnterMethodArgumentSymbol
\* the enter calls and mangleRenameSymbol
NextRename == InitEmpty \/ UnfreezeNameTable \/ UnfreezeSymbolTable \/ EnterCall \/ MangleRenameSymbol
\* class and module definitions, mixins and the linearizer
NextLin ==
    \/ InitEmpty \/ (gs.symbolTableFrozen /\ UnfreezeSymbolTable) \/ DeclareClass \/ AddMixin
    \/ ComputeClassLinearization \/ ComputeLinearization
\* One definition with members, one rename (of the symbol the preceding call
\* entered) and the resolver's last pass.  Both tables are unfrozen first,
\* as they are while the namer and the resolver run.
NextResolve ==
    \/ InitEmpty
    \/ (gs.symbolTableFrozen /\ UnfreezeSymbolTable)
    \/ (~gs.symbolTableFrozen /\ gs.nameTableFrozen /\ UnfreezeNameTable)
    \/ (~gs.nameTableFrozen /\ UserClasses(gs) = {} /\ DeclareClass)
    \/ (~gs.nameTableFrozen /\ DeclareMember)
    \/ (~gs.nameTableFrozen /\ AddMixin)
    \/ (namesUsed(gs) = BootNameCount /\ MangleRenameSymbol /\ last'.sym = last.sym)
    \/ (~gs.nameTableFrozen /\ FinalizeSymbols)
\* the three guards with one creating call of the name table and the file table
\* one definition, type members on it and on Object, and resolver passes
NextOrder ==
    \/ InitEmpty
    \/ (gs.symbolTableFrozen /\ UnfreezeSymbolTable)
    \/ (~gs.symbolTableFrozen /\ gs.nameTableFrozen /\ UnfreezeNameTable)
    \/ (~gs.nameTableFrozen /\ UserClasses(gs) = {} /\ DeclareClass)
    \/ (~gs.nameTableFrozen /\ DeclareTypeMember)
    \/ (~gs.nameTableFrozen /\ FinalizeSymbols)
\* one definition, under Object, StubSuperClass, BasicObject or Class, type
\* members of every variance, and resolver passes
NextVariance ==
    \/ InitEmpty
    \/ (gs.symbolTableFrozen /\ UnfreezeSymbolTable)
    \/ (~gs.symbolTableFrozen /\ gs.nameTableFrozen /\ UnfreezeNameTable)
    \/ (~gs.nameTableFrozen /\ UserClasses(gs) = {} /\ DeclareClass)
    \/ (~gs.nameTableFrozen /\ UserClasses(gs) = {} /\ DeclareClassOfClass)
    \/ (~gs.nameTableFrozen /\ DeclareVariantMember)
    \/ (~gs.nameTableFrozen /\ FinalizeSymbols)
\* modules, then includes on them and on Object, then the linearizer
NextInclude ==
    \/ InitEmpty
    \/ (gs.symbolTableFrozen /\ UnfreezeSymbolTable)
    \/ (MixinTotal(gs, 1) = 0 /\ DeclareModule)
    \/ IncludeModule
    \/ ComputeClassLinearization
    \/ ComputeLinearization
\* A program in the order a run declares it: definitions (at most two),
\* then their members, then their mixins, MaxDecls declarations in all; then
\* resolver passes, after which nothing more is declared.
NextProgram ==
    \/ InitEmpty
    \/ (gs.symbolTableFrozen /\ UnfreezeSymbolTable)
    \/ (~gs.symbolTableFrozen /\ gs.nameTableFrozen /\ UnfreezeNameTable)
    \/ (~gs.nameTableFrozen /\ Declaring /\ Cardinality(UserClasses(gs)) < 2
           /\ DeclaredMembers(gs) = 0 /\ MixinTotal(gs, 1) = 0 /\ DeclareClass)
    \/ (~gs.nameTableFrozen /\ Declaring /\ MixinTotal(gs, 1) = 0 /\ DeclareMember)
    \/ (~gs.nameTableFrozen /\ Declaring /\ MixinTotal(gs, 1) = 0 /\ DeclareTypeMember)
    \/ (~gs.nameTableFrozen /\ Declaring /\ AddMixin)
    \/ (~gs.nameTableFrozen /\ FinalizeSymbols)
\* a GlobalState is populated with names, a definition, a mixin, a rename
\* and resolver passes, and then copied
NextCopyOnce ==
    \/ InitEmpty
    \/ (~Copied /\ gs.nameTableFrozen /\ UnfreezeNameTable)
    \/ (~Copied /\ gs.symbolTableFrozen /\ UnfreezeSymbolTable)
    \/ (~Copied /\ ~gs.nameTableFrozen /\ EnterShortNameUTF8)
    \/ (~Copied /\ ~gs.symbolTableFrozen /\ UserClasses(gs) = {} /\ DeclareClass)
    \/ (~Copied /\ ~gs.symbolTableFrozen /\ AddMixin)
    \/ (~Copied /\ ~gs.symbolTableFrozen /\ namesUsed(gs) = BootNameCount /\ MangleRenameSymbol
           /\ last'.sym = last.sym)
    \/ (~Copied /\ ~gs.symbolTableFrozen /\ ~gs.nameTableFrozen /\ FinalizeSymbols)
    \/ DeepCopy
\* the state initEmpty leaves is copied; then names are entered in the copy
\* and in the original in any interleaving, and one of the two, the other
\* being as the copy left it, takes a definition, a mixin, a rename and
\* resolver passes
NextIsolate ==
    \/ InitEmpty
    \/ (gs.nameTableFrozen /\ UnfreezeNameTable)
    \/ (gs.symbolTableFrozen /\ UnfreezeSymbolTable)
    \/ (Copied /\ ~gs.nameTableFrozen /\ EnterShortNameUTF8)
    \/ (OtherUntouched /\ ~gs.symbolTableFrozen /\ UserClasses(gs) = {} /\ DeclareClass)
    \/ (OtherUntouched /\ ~gs.symbolTableFrozen /\ MixinTotal(gs, 1) = 0 /\ AddMixin)
    \/ (OtherUntouched /\ ~gs.symbolTableFrozen /\ namesUsed(gs) = BootNameCount /\ MangleRenameSymbol
           /\ last'.sym = last.sym)
    \/ (OtherUntouched /\ ~gs.symbolTableFrozen /\ ~gs.nameTableFrozen /\ FinalizeSymbols)
    \/ DeepCopy
    \/ OperateOnOther
\* one GlobalState is populated and copied; then calls of every kind act on
\* the copy and on the original, in any interleaving
NextCopy ==
    \/ InitEmpty
    \/ (gs.nameTableFrozen /\ UnfreezeNameTable)
    \/ (gs.symbolTableFrozen /\ UnfreezeSymbolTable)
    \/ (~gs.nameTableFrozen /\ EnterShortNameUTF8)
    \/ (~gs.symbolTableFrozen /\ UserClasses(gs) = {} /\ DeclareClass)
    \/ (~gs.symbolTableFrozen /\ AddMixin)
    \/ (~gs.symbolTableFrozen /\ namesUsed(gs) = BootNameCount /\ MangleRenameSymbol /\ last'.sym = last.sym)
    \/ (~gs.symbolTableFrozen /\ ~gs.nameTableFrozen /\ FinalizeSymbols)
    \/ DeepCopy
    \/ OperateOnOther
\* the name table through its whole life: construction, initEmpty, interns
\* with growth and preallocateTables; then the copy, to which the caller
\* turns for good, and the same calls on the copy
NextTables ==
    \/ InitEmpty
    \/ (gs.nameTableFrozen /\ UnfreezeNameTable)
    \/ ((~Copied \/ ~other.isCopy) /\ Interns)
    \/ ((~Copied \/ ~other.isCopy) /\ PreallocateTables)
    \/ DeepCopy
    \/ (Copied /\ other.isCopy /\ OperateOnOther)
\* symbols entered under one name, the redefinitions that get renamed
MaxRenamed == 4
\* names the renames and the singleton classes intern
MaxRenamedNames == 3
\* the names of the definitions: a plain name and the class name of the
\* root, under which no member table holds a symbol after initEmpty
RenamedNames == {1, BootConstant(4)}
\* a class or a method is entered
EnterNamed ==
    /\ pc = "ready"
    /\ \E op \in {"enterClassSymbol", "enterMethodSymbol"}, owner \in ClassOwnerInputs(gs),
          name \in RenamedNames :
            LET r == Enter(gs, op, owner, name, "Invariant")
            IN  /\ entriesUsed(r.g) <= BootClassCount + MaxRenamed
                /\ gs' = r.g
                /\ pc' = PcAfter(r.status)
                /\ last' = SymCall(op, r.status, r.ret,
                                   r.status = "ok" /\ symbolsUsedTotal(r.g) = symbolsUsedTotal(gs),
                                   owner, name, "Invariant")
    /\ UNCHANGED <<pages, interned, other>>
\* a symbol is renamed under its own name
RenameNamed ==
    /\ pc = "ready"
    /\ \E what \in RenameInputs(gs) :
            LET origName == dataAllowingNone(gs, what).name
                r == mangleRenameSymbol(gs, pages, what, origName)
            IN  /\ namesUsed(r.g) <= BootNameCount + MaxRenamedNames
                /\ gs' = r.g
                /\ pages' = r.pg
                /\ pc' = PcAfter(r.status)
                /\ last' = [SymCall("mangleRenameSymbol", r.status, what, FALSE,
                                    dataAllowingNone(gs, what).owner, origName, "Invariant")
                               EXCEPT !.ret = r.ret]
                /\ UNCHANGED <<interned, other>>
\* the singleton class of an entered class is taken
SingletonClass ==
    /\ pc = "ready"
    /\ \E klass \in ClassOwnerInputs(gs) \ {root} :
            LET r == singletonClass(gs, pages, klass)
            IN  /\ ~exists(lookupSingletonClass(gs, klass))
                /\ entriesUsed(r.g) <= BootClassCount + MaxRenamed
                /\ namesUsed(r.g) <= BootNameCount + MaxRenamedNames
                /\ gs' = r.g
                /\ pages' = r.pg
                /\ pc' = PcAfter(r.status)
                /\ last' = [SymCall("singletonClass", r.status, lookupSingletonClass(r.g, klass), FALSE,
                                    klass, dataAllowingNone(gs, klass).name, "Invariant")
                               EXCEPT !.ret = r.ret]
                /\ UNCHANGED <<interned, other>>

(***************************************************************************)
(* Resolver::finalizeAncestors.                                            *)
(***************************************************************************)
\* The classes of initEmpty that finalizeAncestors names and the cut class
\* list leaves out: todo, untyped, Module and the implicit superclass of
\* modules.  They follow the stub classes and are entered like them.
AncestorStubs == << BootConstant(1), BootConstant(4), BootConstant(6), BootConstant(7) >>
todo == Ref("ClassOrModule", BootClassCount)
untyped == Ref("ClassOrModule", BootClassCount + 1)
Module == Ref("ClassOrModule", BootClassCount + 2)
ImplicitModuleSuperClass == Ref("ClassOrModule", BootClassCount + 3)
AncestorClassCount == BootClassCount + Len(AncestorStubs)

RECURSIVE enterAncestorStubs(_, _)
enterAncestorStubs(r, i) ==
    IF r.status # "ok" \/ i > Len(AncestorStubs) THEN r
    ELSE LET e == enterClassSymbol(r.g, StubOwner, AncestorStubs[i])
         IN  enterAncestorStubs(SymRes(setIsModule(e.g, e.ret, FALSE), e.ret, e.status), i + 1)

AncestorsEntered(r) ==
    /\ gs' = r.g
    /\ pc' = PcAfter(r.status)
    /\ last' = SymCall("enterClassSymbol", r.status, r.ret, FALSE, StubOwner,
                       AncestorStubs[Len(AncestorStubs)], "Invariant")
    /\ UNCHANGED <<pages, interned, other>>
EnterAncestorClasses ==
    /\ pc = "ready"
    /\ ~gs.symbolTableFrozen
    /\ Len(gs.classAndModules) = BootClassCount
    /\ AncestorsEntered(enterAncestorStubs(SymRes(gs, noSymbol, "ok"), 1))

\* Symbol::isClassModuleSet and Symbol::attachedClass: untyped is its own
\* attached class, a singleton class has the class that keeps it
isClassModuleSet(g, ref) == dataAllowingNone(g, ref).flags \cap {"CLASS", "MODULE"} # {}
Keepers(g, ref) ==
    {k \in RefsOf(g, "ClassOrModule") \ {noSymbol} : lookupSingletonClass(g, k) = ref}
attachedClass(g, ref) ==
    IF ref = untyped THEN untyped
    ELSE IF Keepers(g, ref) = {} THEN noSymbol
    ELSE CHOOSE k \in Keepers(g, ref) : TRUE

\* state of the pass: tables, string pages, the superclass edges assigned
\* so far (each with whether its target derived from the symbol when it was
\* assigned) and the status
AncRes(g, pg, edges, status) == [g |-> g, pg |-> pg, edges |-> edges, status |-> status]
AncFailed(st, status) == AncRes(st.g, st.pg, st.edges, status)

\* ref.data(gs)->setSuperClass(to)
Assign(st, ref, to) ==
    AncRes(setSuperClass(st.g, ref, to), st.pg,
           st.edges \cup {[sym |-> ref, to |-> to, derives |-> to = ref \/ derivesFrom(st.g, to, ref)]},
           st.status)

\* the singleton branch: sup is the superclass of the attached class and r
\* the result of taking the singleton class of sup
SingletonSuper(st, ref, attached, sup, r) ==
    IF attached = BasicObject THEN Assign(st, ref, Class)
    ELSE IF sup = ImplicitModuleSuperClass THEN Assign(st, ref, Module)
    ELSE IF sup = todo THEN AncFailed(st, "attached_todo")
    ELSE IF ~exists(sup) THEN AncFailed(st, "data_of_noSymbol")
    ELSE IF r.status # "ok" THEN AncFailed(st, r.status)
    ELSE Assign(AncRes(r.g, r.pg, st.edges, st.status), ref, lookupSingletonClass(r.g, sup))
FinalizeSingleton(st, ref, attached) ==
    SingletonSuper(st, ref, attached, superClass(st.g, attached),
                   singletonClass(st.g, st.pg, superClass(st.g, attached)))

\* the branch of a class or module that is no singleton class
FinalizePlain(st, ref) ==
    IF isClassOrModuleClass(st.g, ref)
    THEN IF ~derivesFrom(st.g, Object, ref) /\ Object # ref THEN Assign(st, ref, Object) ELSE st
    ELSE IF ~derivesFrom(st.g, BasicObject, ref) /\ BasicObject # ref
    THEN Assign(st, ref, ImplicitModuleSuperClass)
    ELSE st

\* a symbol that is neither class nor module becomes a module
DefaultToModule(st, ref) ==
    IF isClassModuleSet(st.g, ref) THEN st
    ELSE AncRes(setIsModule(st.g, ref, TRUE), st.pg, st.edges, st.status)
\* the rest of the round
FinalizeSuper(st, ref, attached) ==
    IF exists(superClass(st.g, ref)) /\ superClass(st.g, ref) # todo THEN st
    ELSE IF ref = ImplicitModuleSuperClass THEN Assign(st, ref, BasicObject)
    ELSE IF exists(attached) /\ attached # untyped THEN FinalizeSingleton(st, ref, attached)
    ELSE FinalizePlain(st, ref)
\* one round of the loop over the classes
FinalizeOne(st, ref) == FinalizeSuper(DefaultToModule(st, ref), ref, attachedClass(st.g, ref))

\* for (int i = 1; i < gs.classAndModulesUsed(); ++i), the bound read again
\* in every round; a pass that outruns `fuel` rounds does not end
RECURSIVE FinalizeLoop(_, _, _)
FinalizeLoop(st, i, fuel) ==
    IF st.status # "ok" \/ i >= Len(st.g.classAndModules) THEN st
    ELSE IF fuel = 0 THEN AncFailed(st, "hang")
    ELSE FinalizeLoop(FinalizeOne(st, Ref("ClassOrModule", i)), i + 1, fuel - 1)

finalizeAncestors(g, pg) ==
    FinalizeLoop(AncRes(g, pg, {}, "ok"), 1, 3 * Len(g.classAndModules))

\* the program's definitions: classes and modules under Object, declared
\* with or without a superclass, their mixins and their singleton classes
MaxAncestors == 2
MaxSingletons == 2
Declarations(g) == {k \in RefsOf(g, "ClassOrModule") : k.idx >= AncestorClassCount /\ Keepers(g, k) = {}}
SingletonClasses(g) == {k \in RefsOf(g, "ClassOrModule") \ {noSymbol} : Keepers(g, k) # {}}
AncestorKinds == {"class", "module", "unset"}

AncestorDeclared(kind, sup, name, e) ==
    /\ e.status = "ok"
    /\ gs' = setSuperClass(IF kind = "unset" THEN e.g ELSE setIsModule(e.g, e.ret, kind = "module"), e.ret, sup)
    /\ last' = SymCall("enterClassSymbol", e.status, e.ret, FALSE, Object, name, "Invariant")
    /\ UNCHANGED <<pages, pc, interned, other>>
\* a class has the placeholder or a class as its superclass, a module and a
\* symbol of no kind have none
DeclareAncestor ==
    /\ pc = "ready"
    /\ Len(gs.classAndModules) >= AncestorClassCount
    /\ Cardinality(Declarations(gs)) < MaxAncestors
    /\ \E kind \in AncestorKinds, sup \in {noSymbol, todo, Object} \cup Declarations(gs) :
           /\ kind = "class" <=> exists(sup)
           /\ sup \in Declarations(gs) => ~isClassOrModuleModule(gs, sup)
           /\ AncestorDeclared(kind, sup, BootConstant(Cardinality(Declarations(gs)) + 1),
                               enterClassSymbol(gs, Object, BootConstant(Cardinality(Declarations(gs)) + 1)))

\* a mixin the resolver accepts: it is not the class and does not derive
\* from it
IncludeAncestor ==
    /\ pc = "ready"
    /\ MixinTotal(gs, 1) < MaxMixins
    /\ \E klass \in Declarations(gs) \cup {Object, BasicObject}, mixin \in Declarations(gs) :
           /\ klass # mixin
           /\ ~derivesFrom(gs, mixin, klass)
           /\ ~Contains(mixins(gs, klass), mixin)
           /\ gs' = addMixin(gs, klass, mixin)
           /\ last' = SymCall("addMixin", "ok", klass, FALSE, noSymbol, noName, "Invariant")
    /\ UNCHANGED <<pages, pc, interned, other>>

SingletonTaken(klass, r) ==
    /\ gs' = r.g
    /\ pages' = r.pg
    /\ pc' = PcAfter(r.status)
    /\ last' = [SymCall("singletonClass", r.status, lookupSingletonClass(r.g, klass), FALSE,
                        klass, dataAllowingNone(gs, klass).name, "Invariant")
                   EXCEPT !.ret = r.ret]
    /\ UNCHANGED <<interned, other>>
SingletonOf ==
    /\ pc = "ready"
    /\ Len(gs.classAndModules) >= AncestorClassCount
    /\ Cardinality(SingletonClasses(gs)) < MaxSingletons
    /\ \E klass \in Declarations(gs) \cup {Object, BasicObject} :
           /\ ~exists(lookupSingletonClass(gs, klass))
           /\ SingletonTaken(klass, singletonClass(gs, pages, klass))

\* the pass; `diags` keeps the superclass edges it assigned
AncestorsFinalized(r) ==
    /\ gs' = r.g
    /\ pages' = r.pg
    /\ pc' = PcAfter(r.status)
    /\ last' = [SymCall("finalizeAncestors", r.status, noSymbol, FALSE, noSymbol, noName, "Invariant")
                   EXCEPT !.diags = r.edges]
    /\ UNCHANGED <<interned, other>>
FinalizeAncestors ==
    /\ pc = "ready"
    /\ Len(gs.classAndModules) >= AncestorClassCount
    /\ last.op # "finalizeAncestors"
    /\ AncestorsFinalized(finalizeAncestors(gs, pages))

\* the built-in classes, then a program's definitions in any order, then
\* the pass
NextAncestors ==
    \/ InitEmpty
    \/ (gs.symbolTableFrozen /\ UnfreezeSymbolTable)
    \/ (~gs.symbolTableFrozen /\ gs.nameTableFrozen /\ UnfreezeNameTable)
    \/ (~gs.nameTableFrozen /\ EnterAncestorClasses)
    \/ (~gs.nameTableFrozen /\ last.op # "finalizeAncestors" /\ DeclareAncestor)
    \/ (~gs.nameTableFrozen /\ last.op # "finalizeAncestors" /\ IncludeAncestor)
    \/ (~gs.nameTableFrozen /\ last.op # "finalizeAncestors" /\ SingletonOf)
    \/ (~gs.nameTableFrozen /\ FinalizeAncestors)

\* definitions and redefinitions under one name in several owners, each
\* redefinition renaming the symbol defined before
NextFind ==
    \/ InitEmpty
    \/ (gs.symbolTableFrozen /\ UnfreezeSymbolTable)
    \/ (~gs.symbolTableFrozen /\ gs.nameTableFrozen /\ UnfreezeNameTable)
    \/ (~gs.nameTableFrozen /\ EnterNamed)
    \/ (~gs.nameTableFrozen /\ namesUsed(gs) < BootNameCount + 2 /\ RenameNamed)
\* symbols entered in the runs of renames with singleton classes
MaxMangled == 3
\* definitions, singleton classes and renames of any entered symbol, a
\* renamed one included
NextMangle ==
    \/ InitEmpty
    \/ (gs.symbolTableFrozen /\ UnfreezeSymbolTable)
    \/ (~gs.symbolTableFrozen /\ gs.nameTableFrozen /\ UnfreezeNameTable)
    \/ (~gs.nameTableFrozen /\ entriesUsed(gs) < BootClassCount + MaxMangled /\ EnterNamed)
    \/ (~gs.nameTableFrozen /\ RenameNamed)
    \/ (~gs.nameTableFrozen /\ entriesUsed(gs) < BootClassCount + MaxMangled /\ SingletonClass)
\* strings shorter than a page, as long as a page and longer than a page
PagedStrings == { <<>>, <<1>>, <<1, 2>>, <<2, 1, 2, 1>>, <<1, 2, 1, 2, 1>> }
\* names a GlobalState enters on top of the registered ones
MaxStrings == 2

EnterPagedString ==
    /\ pc = "ready"
    /\ \E nm \in PagedStrings :
           LET r == enterNameUTF8(gs, pages, nm)
           IN  /\ namesUsed(r.g) <= BootNameCount + MaxStrings
               /\ gs' = r.g
               /\ pages' = r.pg
               /\ pc' = PcAfter(r.status)
               /\ last' = NameCall("enterNameUTF8", UTF8Key(nm), r.status, r.ret,
                                   r.status = "ok" /\ namesUsed(r.g) = namesUsed(gs))
               /\ UNCHANGED <<interned, other>>

\* the string pages: strings of every length are entered, a copy is made at
\* any point, and the original and the copy go on entering strings in any
\* interleaving
NextStrings ==
    \/ InitEmpty
    \/ (gs.nameTableFrozen /\ UnfreezeNameTable)
    \/ EnterPagedString
    \/ DeepCopy
    \/ OperateOnOther
NextGuards == InitEmpty \/ NameGuards \/ SymbolGuards \/ FileGuards \/ EnterNameUTF8 \/ EnterFile
Next ==
    \/ InitEmpty \/ NameGuards \/ SymbolGuards \/ FileGuards \/ Interns \/ Lookups
    \/ EnterCall \/ EnterMethodArgumentSymbol \/ EnterFile \/ MangleRenameSymbol
    \/ DeclareClass \/ AddMixin \/ ComputeClassLinearization \/ ComputeLinearization
    \/ DeclareMember \/ FinalizeSymbols

SpecNames == Init /\ [][NextNames]_vars
SpecSyms == Init /\ [][NextSyms]_vars
SpecRename == Init /\ [][NextRename]_vars
SpecLin == Init /\ [][NextLin]_vars
SpecResolve == Init /\ [][NextResolve]_vars
SpecGuards == Init /\ [][NextGuards]_vars
SpecOrder == Init /\ [][NextOrder]_vars
SpecVariance == Init /\ [][NextVariance]_vars
SpecInclude == Init /\ [][NextInclude]_vars
SpecProgram == Init /\ [][NextProgram]_vars
SpecCopyOnce == Init /\ [][NextCopyOnce]_vars
SpecIsolate == Init /\ [][NextIsolate]_vars
SpecStrings == Init /\ [][NextStrings]_vars
SpecFind == Init /\ [][NextFind]_vars
SpecMangle == Init /\ [][NextMangle]_vars
SpecAncestors == Init /\ [][NextAncestors]_vars
SpecTables == Init /\ [][NextTables]_vars
SpecCopy == Init /\ [][NextCopy]_vars
Spec == Init /\ [][Next]_vars

TypeOK ==
    /\ pc \in {"constructed", "initEmpty", "ready", "aborted", "hung"}
    /\ Len(gs.namesByHash) = 2 * gs.namesCapacity
    /\ namesUsed(gs) <= gs.namesCapacity

(***************************************************************************)
(* Name table: properties.                                                 *)
(***************************************************************************)
Running == pc \in {"initEmpty", "ready"}

AllStrings == UserStrings \cup {BootStrings[i] : i \in 1..Len(BootStrings)}
InternOps == {"enterNameUTF8", "enterNameConstant", "enterNameConstantStr", "freshNameUnique"}
LookupOps == {"lookupNameUTF8", "lookupNameConstant", "lookupNameConstantStr", "lookupNameUnique"}

\* history: the key has been interned / the id its intern call returned
WasInterned(key) == \E e \in interned : e.key = key
InternedId(key) == (CHOOSE e \in interned : e.key = key).id

\* ids that may be wrapped by a constant name
ConstantOriginals(g) == {id \in 1..(namesUsed(g) - 1) : ConstantOriginalOk(g, id)}
\* every key the calls are tried with in a state
KeyInputs(g) ==
    {UTF8Key(nm) : nm \in AllStrings}
        \cup {ConstantKey(o) : o \in ConstantOriginals(g)}
        \cup {UniqueKey(unk, o, num) : unk \in UniqueNameKinds, o \in 1..(namesUsed(g) - 1), num \in 1..MaxNum}

\* the creating call and the lookup that belong to a key
EnterByKey(g, pg, key) ==
    IF key.kind = "UTF8" THEN enterNameUTF8(g, pg, key.text)
    ELSE IF key.kind = "CONSTANT" THEN enterNameConstant(g, pg, key.original)
    ELSE freshNameUnique(g, pg, key.uniqueNameKind, key.original, key.num)

LookupByKey(g, pg, key) ==
    IF key.kind = "UTF8" THEN [ret |-> lookupNameUTF8(g, pg, key.text), status |-> "ok"]
    ELSE IF key.kind = "CONSTANT" THEN lookupNameConstant(g, pg, key.original)
    ELSE lookupNameUnique(g, pg, key.uniqueNameKind, key.original, key.num)

\* C1: while the name table is unfrozen, enterNameUTF8(s) called twice returns
\* the same id both times, the second call adds no name and no hash-table
\* entry, and the text stored under the returned id is s.
C1_InternIdempotent ==
    (Running /\ ~gs.nameTableFrozen) =>
        \A nm \in AllStrings :
            LET r1 == enterNameUTF8(gs, pages, nm)
                r2 == enterNameUTF8(r1.g, r1.pg, nm)
            IN  /\ r1.status = "ok"
                /\ r2.status = "ok"
                /\ r2.ret = r1.ret
                /\ r2.g.names = r1.g.names
                /\ r2.g.namesByHash = r1.g.namesByHash
                /\ NameAt(r2.g, r2.ret).kind = "UTF8"
                /\ ViewText(r2.pg, NameAt(r2.g, r2.ret).utf8) = nm

\* an enterNameUTF8 call has just returned the id of a text interned after
\* initEmpty, and another name with the same hash is in the table
C1_Witness ==
    /\ last.op = "enterNameUTF8" /\ last.status = "ok" /\ last.hit
    /\ last.ret >= BootNameCount
    /\ ViewText(pages, NameAt(gs, last.ret).utf8) = <<2, 1>>
    /\ \E id \in BootNameCount..(namesUsed(gs) - 1) :
           NameAt(gs, id).kind = "UTF8" /\ ViewText(pages, NameAt(gs, id).utf8) = <<1, 2>>

\* C2: two interned names have the same id exactly when they have the same
\* variant and content, both among the (key, id) pairs the intern calls have
\* returned and among the names stored in the table; keys of equal hash or
\* equal bucket get distinct ids.
C2_StructuralIdentity ==
    /\ \A a \in interned, b \in interned : (a.id = b.id) <=> (a.key = b.key)
    /\ \A e \in interned : e.id >= 1 /\ e.id < namesUsed(gs) /\ KeyOf(gs, pages, e.id) = e.key
    /\ \A i \in 1..(namesUsed(gs) - 1), j \in 1..(namesUsed(gs) - 1) :
           (i = j) <=> (KeyOf(gs, pages, i) = KeyOf(gs, pages, j))

\* two keys interned after initEmpty have equal hash values and distinct ids,
\* and two others have distinct hash values and the same home bucket
C2_Witness ==
    /\ \E a \in interned, b \in interned :
           /\ a.id >= BootNameCount /\ b.id >= BootNameCount /\ a.id # b.id
           /\ HashOfKey(a.key) = HashOfKey(b.key)
    /\ \E a \in interned, b \in interned :
           /\ a.id # b.id /\ b.id >= BootNameCount
           /\ HashOfKey(a.key) # HashOfKey(b.key)
           /\ Mask(HashOfKey(a.key), Len(gs.namesByHash)) = Mask(HashOfKey(b.key), Len(gs.namesByHash))

\* C3: after any sequence of creating interns, table growth included, the
\* lookup of every key ever interned returns the id its intern call returned.
C3_LookupAfterGrowth ==
    \A e \in interned :
        LET r == LookupByKey(gs, pages, e.key)
        IN  r.status = "ok" /\ r.ret = e.id

\* the name array has grown beyond its initial capacity after a name was
\* interned by a caller, and a lookup has just found a name
C3_Witness ==
    /\ gs.namesCapacity > PAYLOAD_MAX_NAME_COUNT
    /\ namesUsed(gs) > BootNameCount + 1
    /\ last.op \in LookupOps /\ last.status = "ok" /\ last.ret = BootNameCount

\* C4: a creating intern gives the new name the id equal to the number of
\* names before the call, and no step changes the kind or content stored
\* under an existing id.
C4_NameIdsStable ==
    [][/\ namesUsed(gs') >= namesUsed(gs)
       /\ \A id \in 0..(namesUsed(gs) - 1) :
              /\ NameAt(gs', id).kind = NameAt(gs, id).kind
              /\ KeyOf(gs', pages', id) = KeyOf(gs, pages, id)
       /\ (last'.op \in InternOps /\ last'.status = "ok" /\ ~last'.hit) =>
              /\ last'.ret = namesUsed(gs') - 1
              /\ namesUsed(gs') > namesUsed(gs)
              /\ (last'.op # "enterNameConstantStr" => last'.ret = namesUsed(gs))
              /\ (last'.op = "enterNameConstantStr" => last'.ret \in {namesUsed(gs), namesUsed(gs) + 1})
      ]_vars

\* the table has grown and been frozen after two texts were stored on one
\* page by callers
C4_Witness ==
    /\ gs.namesCapacity > PAYLOAD_MAX_NAME_COUNT
    /\ last.op = "freezeNameTable"
    /\ \E i \in BootNameCount..(namesUsed(gs) - 1), j \in BootNameCount..(namesUsed(gs) - 1) :
           /\ i < j
           /\ NameAt(gs, i).kind = "UTF8" /\ NameAt(gs, j).kind = "UTF8"
           /\ NameAt(gs, i).utf8.len > 0 /\ NameAt(gs, j).utf8.len > 0
           /\ NameAt(gs, i).utf8.page = NameAt(gs, j).utf8.page

\* the id recorded for a key, noName when it was never interned
IdOrNoName(key) == IF WasInterned(key) THEN InternedId(key) ELSE noName

\* the answer a lookup owes: for the string overload of lookupNameConstant
\* the constant over the id of the text, noName when either is not interned
ExpectedLookup(op, key) ==
    IF op = "lookupNameConstantStr"
    THEN IF WasInterned(key) THEN IdOrNoName(ConstantKey(InternedId(key))) ELSE noName
    ELSE IF op = "lookupNameConstant" /\ key.original = noName THEN noName
    ELSE IdOrNoName(key)

\* C5: the lookups change neither the name array nor the hash table, also
\* when the table is frozen; each returns noName exactly when the key was
\* never interned and otherwise the id the enter call returned;
\* lookupNameConstant of an absent original or of a text that is not
\* interned returns noName.
C5_LookupsPure ==
    [][(last'.op \in LookupOps /\ last'.status = "ok") =>
           /\ gs' = gs
           /\ pages' = pages
           /\ last'.ret = ExpectedLookup(last'.op, last'.key)
           /\ (last'.op \in {"lookupNameUTF8", "lookupNameUnique"}) =>
                  ((last'.ret = noName) <=> ~WasInterned(last'.key))
      ]_vars

\* with the table frozen after a caller interned a text, the string overload
\* of lookupNameConstant has just missed on that text: the text is interned,
\* the constant over it is not
C5_Witness ==
    /\ gs.nameTableFrozen
    /\ last.op = "lookupNameConstantStr" /\ last.status = "ok" /\ last.ret = noName
    /\ WasInterned(last.key)
    /\ InternedId(last.key) >= BootNameCount
    /\ \E e \in interned : e.key.kind = "UNIQUE"

(***************************************************************************)
(* Symbol store: properties.                                               *)
(***************************************************************************)
\* the arena an enter operation creates its symbols in
KindOf(op) ==
    IF op = "enterClassSymbol" THEN "ClassOrModule"
    ELSE IF op = "enterTypeMember" THEN "TypeMember"
    ELSE IF op = "enterTypeArgument" THEN "TypeArgument"
    ELSE IF op = "enterMethodSymbol" THEN "Method"
    ELSE "Field"

\* the flags an enter operation requires of an entry and records in a symbol
RequiredFlags(op, variance) ==
    IF op = "enterClassSymbol" THEN {"CLASS_OR_MODULE"}
    ELSE IF op = "enterTypeMember" THEN {"TYPE_MEMBER", VarianceFlag(variance)}
    ELSE IF op = "enterTypeArgument" THEN {"TYPE_ARGUMENT", VarianceFlag(variance)}
    ELSE IF op = "enterMethodSymbol" THEN {"METHOD"}
    ELSE IF op = "enterFieldSymbol" THEN {"FIELD"}
    ELSE {"STATIC_FIELD"}

\* the owner's member table holds a symbol under the name; an entry that
\* holds noSymbol is the placeholder of a name without a symbol
HasEntry(g, owner, name) ==
    LET members == dataAllowingNone(g, owner).members
    IN  name \in DOMAIN members /\ exists(members[name])
EntryOf(g, owner, name) == dataAllowingNone(g, owner).members[name]

ArenaLens(g) == [kind \in SymbolKinds |-> Len(Arena(g, kind))]

\* every enter call tried in a state
EnterInputs(g) ==
    {c \in [op : EnterOps, owner : ClassOwnerInputs(g) \cup RefsOf(g, "Method"),
            name : SymNameInputs, variance : Variances] :
        c.owner \in OwnerInputs(g, c.op) /\ c.variance \in VarianceInputs(c.op)}
EnterOf(g, c) == Enter(g, c.op, c.owner, c.name, c.variance)

\* C6: an enter call that returns, repeated with the same arguments, returns
\* the same reference; the second call grows no arena and appends nothing to
\* the owner's list of type members or type arguments.
C6_EnterIdempotent ==
    pc = "ready" =>
        \A c \in EnterInputs(gs) :
            LET r1 == EnterOf(gs, c)
                r2 == EnterOf(r1.g, c)
            IN  r1.status = "ok" =>
                    /\ r2.status = "ok"
                    /\ r2.ret = r1.ret
                    /\ ArenaLens(r2.g) = ArenaLens(r1.g)
                    /\ dataAllowingNone(r2.g, c.owner).typeParams = dataAllowingNone(r1.g, c.owner).typeParams

\* enterTypeMember has just returned an existing type member that its owner
\* lists once
C6_Witness ==
    /\ last.op = "enterTypeMember" /\ last.status = "ok" /\ last.hit
    /\ last.sym.kind = "TypeMember"
    /\ dataAllowingNone(gs, last.owner).typeParams = <<last.sym>>
    /\ Len(gs.typeMembers) = 1

\* C7: an enter call that returns, for a name under which the owner holds no
\* symbol, appends exactly one record to the arena of its kind (fields and
\* static fields share one arena), leaves the other arenas unchanged, stores
\* the new reference in the owner's member table under the name, records
\* name, owner and the flags of the kind in the record and sets wasModified;
\* a call that finds a symbol changes nothing.
C7_EnterCreatesOneRecord ==
    pc = "ready" =>
        \A c \in EnterInputs(gs) :
            LET r == EnterOf(gs, c)
                kind == KindOf(c.op)
                before == Len(Arena(gs, kind))
            IN  r.status = "ok" =>
                    IF HasEntry(gs, c.owner, c.name)
                    THEN r.g = gs /\ r.ret = EntryOf(gs, c.owner, c.name)
                    ELSE /\ ArenaLens(r.g) = [ArenaLens(gs) EXCEPT ![kind] = before + 1]
                         /\ r.ret = Ref(kind, before)
                         /\ EntryOf(r.g, c.owner, c.name) = r.ret
                         /\ dataAllowingNone(r.g, r.ret).name = c.name
                         /\ dataAllowingNone(r.g, r.ret).owner = c.owner
                         /\ dataAllowingNone(r.g, r.ret).flags = RequiredFlags(c.op, c.variance)
                         /\ r.g.wasModified

\* enterStaticFieldSymbol has just created a record in the arena that
\* already held an instance field, and an enter call before it found a symbol
C7_Witness ==
    /\ last.op = "enterStaticFieldSymbol" /\ last.status = "ok" /\ ~last.hit
    /\ last.sym = Ref("Field", 1)
    /\ gs.fields[1].flags = {"FIELD"}
    /\ gs.fields[2].flags = {"STATIC_FIELD"}
    /\ EntryOf(gs, last.owner, last.name) = last.sym
    /\ gs.wasModified

\* C8: no step shortens an arena; a step that grows one (an enter call or
\* synthesizeClass) grows it by one record and returns the reference whose
\* index is the length the arena had before the call.
C8_ArenasAppendOnly ==
    [][\A kind \in SymbolKinds :
           /\ Len(Arena(gs', kind)) >= Len(Arena(gs, kind))
           /\ Len(Arena(gs', kind)) > Len(Arena(gs, kind)) =>
                  /\ Len(Arena(gs', kind)) = Len(Arena(gs, kind)) + 1
                  /\ last'.op \in EnterOps \cup {"synthesizeClass"}
                  /\ last'.status = "ok"
                  /\ last'.sym = Ref(kind, Len(Arena(gs, kind)))
                  /\ \A i \in 1..Len(Arena(gs, kind)) :
                         /\ Arena(gs', kind)[i].name = Arena(gs, kind)[i].name
                         /\ Arena(gs', kind)[i].owner = Arena(gs, kind)[i].owner
      ]_vars

\* enterClassSymbol has just created the class after the last built-in one,
\* in a member table that held noSymbol under the name
C8_Witness ==
    /\ last.op = "enterClassSymbol" /\ last.status = "ok" /\ ~last.hit
    /\ last.sym = Ref("ClassOrModule", BootClassCount)
    /\ last.owner = root /\ last.name = BootConstant(1)
    /\ Len(gs.classAndModules) = BootClassCount + 1

\* C9: an enter call whose argument checks pass, for a name under which the
\* owner holds a symbol whose flags lack a flag the operation requires, is a
\* fatal invariant violation: it returns no symbol and changes no arena and
\* no member table.  Examples: enterMethodSymbol on the name of a class,
\* enterFieldSymbol on the name of a method, enterTypeMember with another
\* variance than the type member has.
C9_WrongFlagsFatal ==
    /\ pc = "ready" =>
           \A c \in EnterInputs(gs) :
               LET r == EnterOf(gs, c)
               IN  (/\ r.status # "bad_args"
                    /\ HasEntry(gs, c.owner, c.name)
                    /\ ~(RequiredFlags(c.op, c.variance) \subseteq
                             dataAllowingNone(gs, EntryOf(gs, c.owner, c.name)).flags))
                       => (r.status = "wrong_flags" /\ r.ret = noSymbol /\ r.g = gs)
    /\ (pc = "aborted" /\ last.status = "wrong_flags") =>
           /\ last.sym = noSymbol
           /\ HasEntry(gs, last.owner, last.name)
           /\ ~(RequiredFlags(last.op, last.variance) \subseteq
                    dataAllowingNone(gs, EntryOf(gs, last.owner, last.name)).flags)

\* enterTypeMember has just failed on the name of a type member that was
\* entered with another variance
C9_Witness ==
    /\ pc = "aborted"
    /\ last.op = "enterTypeMember" /\ last.status = "wrong_flags"
    /\ HasEntry(gs, last.owner, last.name)
    /\ EntryOf(gs, last.owner, last.name).kind = "TypeMember"
    /\ VarianceFlag(last.variance) \notin dataAllowingNone(gs, EntryOf(gs, last.owner, last.name)).flags
    /\ Len(gs.typeMembers) = 1

\* C10: while the name-table guard is set, an intern call for a key that was
\* never interned is a fatal invariant violation that leaves the name array
\* and the hash table as they were, and an intern call for an interned key
\* returns its id and changes nothing.
C10_FrozenIntern ==
    (pc = "ready" /\ gs.nameTableFrozen) =>
        /\ \A key \in KeyInputs(gs) :
               LET r == EnterByKey(gs, pages, key)
               IN  IF WasInterned(key)
                   THEN r.status = "ok" /\ r.ret = InternedId(key) /\ r.g = gs /\ r.pg = pages
                   ELSE /\ r.status = "frozen" /\ r.ret = noName
                        /\ r.g.names = gs.names /\ r.g.namesByHash = gs.namesByHash
        /\ \A nm \in AllStrings :
               LET r == enterNameConstantStr(gs, pages, nm)
                   expected == ExpectedLookup("lookupNameConstantStr", UTF8Key(nm))
               IN  IF expected # noName
                   THEN r.status = "ok" /\ r.ret = expected /\ r.g = gs /\ r.pg = pages
                   ELSE /\ r.status = "frozen" /\ r.ret = noName
                        /\ r.g.names = gs.names /\ r.g.namesByHash = gs.namesByHash

\* with the guard set again after callers interned names, an intern call for
\* a new key has just failed and the table holds what it held
C10_Witness ==
    /\ pc = "aborted" /\ gs.nameTableFrozen
    /\ last.op \in InternOps /\ last.status = "frozen"
    /\ ~WasInterned(last.key)
    /\ namesUsed(gs) > BootNameCount + 1
    /\ \A e \in interned : LookupByKey(gs, pages, e.key).ret = e.id

\* C11: while the symbol-table guard is set, every enter call (the six
\* symbol kinds and method arguments) for a name not yet present in its owner
\* is a fatal invariant violation that leaves the state exactly as it was (no
\* arena grows, the member table gains no entry, the argument list gains no
\* element), and a call for a name already present returns the existing
\* reference and changes nothing.
C11_FrozenEnterLeavesState ==
    (pc = "ready" /\ gs.symbolTableFrozen) =>
        /\ \A c \in EnterInputs(gs) :
               LET r == EnterOf(gs, c)
               IN  r.status # "bad_args" =>
                       IF HasEntry(gs, c.owner, c.name)
                       THEN (RequiredFlags(c.op, c.variance) \subseteq
                                 dataAllowingNone(gs, EntryOf(gs, c.owner, c.name)).flags)
                                => (r.status = "ok" /\ r.ret = EntryOf(gs, c.owner, c.name) /\ r.g = gs)
                       ELSE r.status = "frozen" /\ r.g = gs
        /\ \A owner \in RefsOf(gs, "Method"), name \in SymNameInputs :
               LET r == enterMethodArgumentSymbol(gs, owner, name)
               IN  IF ArgPosition(dataAllowingNone(gs, owner).arguments, name) # 0
                   THEN r.status = "ok" /\ r.g = gs
                   ELSE r.status = "frozen" /\ r.g = gs

(***************************************************************************)
(* Write guards: properties.                                               *)
(***************************************************************************)
GuardOps ==
    {"freezeNameTable", "unfreezeNameTable", "freezeSymbolTable", "unfreezeSymbolTable",
     "freezeFileTable", "unfreezeFileTable"}

\* the state a guard call owes: the one guard set or cleared, nothing else
GuardEffect(g, op) ==
    IF op = "freezeNameTable" THEN [g EXCEPT !.nameTableFrozen = TRUE]
    ELSE IF op = "unfreezeNameTable" THEN [g EXCEPT !.nameTableFrozen = FALSE]
    ELSE IF op = "freezeSymbolTable" THEN [g EXCEPT !.symbolTableFrozen = TRUE]
    ELSE IF op = "unfreezeSymbolTable" THEN [g EXCEPT !.symbolTableFrozen = FALSE]
    ELSE IF op = "freezeFileTable" THEN [g EXCEPT !.fileTableFrozen = TRUE]
    ELSE [g EXCEPT !.fileTableFrozen = FALSE]
GuardOf(g, op) ==
    IF op \in {"freezeNameTable", "unfreezeNameTable"} THEN g.nameTableFrozen
    ELSE IF op \in {"freezeSymbolTable", "unfreezeSymbolTable"} THEN g.symbolTableFrozen
    ELSE g.fileTableFrozen

\* C12: each freeze/unfreeze call returns the previous value of its guard and
\* changes that guard only; a creating call on a table succeeds whenever the
\* guard of that table is clear, whatever the other two guards are; enterFile
\* with the file-table guard set is fatal and changes nothing.
C12_GuardsIndependent ==
    [][/\ last'.op \in GuardOps =>
              /\ last'.hit = GuardOf(gs, last'.op)
              /\ gs' = GuardEffect(gs, last'.op)
              /\ pages' = pages
       /\ (pc = "ready" /\ ~gs.nameTableFrozen) =>
              \A key \in KeyInputs(gs) :
                  LET r == EnterByKey(gs, pages, key)
                  IN  ~WasInterned(key) => (r.status = "ok" /\ namesUsed(r.g) = namesUsed(gs) + 1)
       /\ (pc = "ready" /\ ~gs.symbolTableFrozen) =>
              \A c \in EnterInputs(gs) :
                  LET r == EnterOf(gs, c)
                  IN  (r.status # "bad_args" /\ ~HasEntry(gs, c.owner, c.name)) =>
                          (r.status = "ok" /\ symbolsUsedTotal(r.g) = symbolsUsedTotal(gs) + 1)
       /\ pc = "ready" =>
              \A path \in FilePaths :
                  LET r == enterFile(gs, path)
                  IN  IF gs.fileTableFrozen THEN r.status = "frozen" /\ r.g = gs
                      ELSE (\A i \in 1..Len(gs.files) : gs.files[i] # path) =>
                               (r.status = "ok" /\ filesUsed(r.g) = filesUsed(gs) + 1
                                    /\ r.ret = filesUsed(gs))
      ]_vars

\* enterFile has just failed on the set file-table guard while the other two
\* guards are clear, after a name and a file were entered
C12_Witness ==
    /\ pc = "aborted"
    /\ last.op = "enterFile" /\ last.status = "frozen"
    /\ gs.fileTableFrozen /\ ~gs.nameTableFrozen /\ ~gs.symbolTableFrozen
    /\ namesUsed(gs) > BootNameCount
    /\ filesUsed(gs) > 1

(***************************************************************************)
(* Member tables under enter calls and mangleRenameSymbol.                 *)
(***************************************************************************)
\* the flags that mark a symbol as one of the arena of a kind
KindFlags(kind) ==
    IF kind = "ClassOrModule" THEN {"CLASS_OR_MODULE"}
    ELSE IF kind = "Method" THEN {"METHOD"}
    ELSE IF kind = "Field" THEN {"FIELD", "STATIC_FIELD"}
    ELSE IF kind = "TypeArgument" THEN {"TYPE_ARGUMENT"}
    ELSE {"TYPE_MEMBER"}

StoredRefs(d) ==
    {d.owner, d.superClass}
        \cup {d.mixins[i] : i \in 1..Len(d.mixins)}
        \cup {d.typeParams[i] : i \in 1..Len(d.typeParams)}
        \cup {d.members[n] : n \in DOMAIN d.members}
RefsInRange(g) ==
    \A kind \in SymbolKinds :
        \A i \in 1..Len(Arena(g, kind)) :
            \A ref \in StoredRefs(Arena(g, kind)[i]) : InArena(g, ref)

\* C13 as stated: in every state reachable by synthesizeClass, the enter
\* calls, mangleRenameSymbol, linearization and type-member resolution,
\* every stored symbol reference has an index below the length of the arena
\* of its kind.
C13_StoredRefsInRange == RefsInRange(gs)

\* C13, amended: the same, in every state from the return of initEmpty on.
\* While initEmpty runs, synthesizeClass stores references to classes that
\* are created later.
C13_StoredRefsInRangeAfterInit == pc \notin {"constructed", "initEmpty"} => RefsInRange(gs)

\* a pass of finalizeSymbols has just entered a placeholder type member on a
\* class that holds a mixin, after a symbol had been renamed
C13_Witness ==
    /\ pc = "ready"
    /\ last.op = "finalizeSymbols" /\ Len(last.errors) > 0
    /\ namesUsed(gs) > BootNameCount
    /\ \E klass \in RefsOf(gs, "ClassOrModule") :
           /\ Len(mixins(gs, klass)) > 0
           /\ \E i \in 1..Len(typeMembers(gs, klass)) :
                  "FIXED" \in dataAllowingNone(gs, typeMembers(gs, klass)[i]).flags

(***************************************************************************)
(* Type-member resolution: properties.  `last.aliases` is the alias table  *)
(* of the pass that has just returned, `last.errors` its diagnostics.      *)
(***************************************************************************)
\* the classes a pass resolves
ResolvedClasses(g) == {Ref("ClassOrModule", i) : i \in 1..(Len(g.classAndModules) - 1)}
\* the alias table of the pass holds a type member of klass for tp
AliasedIn(g, aliases, klass, tp) ==
    /\ exists(AliasOf(aliases[klass.idx + 1], tp))
    /\ isTypeMember(g, AliasOf(aliases[klass.idx + 1], tp))
    /\ dataAllowingNone(g, AliasOf(aliases[klass.idx + 1], tp)).owner = klass
AllAliased(g, aliases, klass) ==
    /\ exists(superClass(g, klass))
    /\ \A i \in 1..Len(typeMembers(g, superClass(g, klass))) :
           AliasedIn(g, aliases, klass, typeMembers(g, superClass(g, klass))[i])
IsPermutation(a, b) ==
    /\ Len(a) = Len(b)
    /\ \A i \in 1..Len(a) :
           Cardinality({j \in 1..Len(a) : a[j] = a[i]}) = Cardinality({j \in 1..Len(b) : b[j] = a[i]})
Prefix(list, n) == SubSeq(list, 1, n)
HasError(code, klass) == \E i \in 1..Len(last.errors) : last.errors[i].code = code /\ last.errors[i].klass = klass

\* C21: when a pass returns and has aliased every type member of the
\* superclass P of a class C to a type member of C, position i of C's list
\* holds the alias of P's i-th type member, and the members C had before the
\* pass are all there, each once, in the positions they occupied together.
C21_OrderFollowsParent ==
    [][(last'.op = "finalizeSymbols" /\ last'.status = "ok") =>
          \A klass \in ResolvedClasses(gs') :
              AllAliased(gs', last'.aliases, klass) =>
                  /\ \A i \in 1..Len(typeMembers(gs', superClass(gs', klass))) :
                         /\ i <= Len(typeMembers(gs', klass))
                         /\ typeMembers(gs', klass)[i]
                                = AliasOf(last'.aliases[klass.idx + 1], typeMembers(gs', superClass(gs', klass))[i])
                  /\ Len(typeMembers(gs', klass)) >= Len(typeMembers(gs, klass))
                  /\ IsPermutation(Prefix(typeMembers(gs', klass), Len(typeMembers(gs, klass))),
                                   typeMembers(gs, klass))]_vars

\* a pass has returned after it swapped two type members of a class whose
\* superclass has two type members, all of them aliased
C21_Witness ==
    /\ pc = "ready" /\ last.op = "finalizeSymbols" /\ last.status = "ok"
    /\ \E klass \in UserClasses(gs) :
           /\ AllAliased(gs, last.aliases, klass)
           /\ Len(typeMembers(gs, superClass(gs, klass))) >= 2
           /\ HasError("TypeMembersInWrongOrder", klass)

\* the diagnostics of the last pass about the member named name of klass
ErrorsAbout(errors, klass, name) == {i \in 1..Len(errors) : errors[i].klass = klass /\ errors[i].name = name}
\* names of the type members of the superclass of klass
ParentTypeNames(g, klass) ==
    {dataAllowingNone(g, typeMembers(g, superClass(g, klass))[i]).name :
        i \in 1..Len(typeMembers(g, superClass(g, klass)))}
\* klass holds a placeholder under name: a fixed invariant type member
IsPlaceholder(g, klass, name) ==
    /\ exists(findMember(g, klass, name))
    /\ isTypeMember(g, findMember(g, klass, name))
    /\ varianceOf(g, findMember(g, klass, name)) = "Invariant"
    /\ "FIXED" \in dataAllowingNone(g, findMember(g, klass, name)).flags

\* the pass that finds no member under the name of a type member of the
\* superclass enters a placeholder and emits one diagnostic
FirstPassEntersPlaceholder ==
    \A klass \in UserClasses(gs) : \A name \in ParentTypeNames(gs, klass) :
        ~exists(findMember(gs, klass, name)) =>
            /\ IsPlaceholder(gs', klass, name)
            /\ Cardinality(ErrorsAbout(last'.errors, klass, name)) = 1
\* a pass over a state that holds the placeholder finds it and is silent
\* about it
LaterPassIsSilent ==
    \A klass \in UserClasses(gs) : \A name \in ParentTypeNames(gs, klass) :
        IsPlaceholder(gs, klass, name) =>
            /\ findMember(gs', klass, name) = findMember(gs, klass, name)
            /\ ErrorsAbout(last'.errors, klass, name) = {}

\* C22: a class without a member under the name of a type member of its
\* superclass gets, in one pass, a fixed invariant placeholder and exactly
\* one diagnostic; every later pass finds the placeholder by name and emits
\* no diagnostic for it.
C22_PlaceholderOnce ==
    [][(last'.op = "finalizeSymbols" /\ last'.status = "ok") =>
          (FirstPassEntersPlaceholder /\ LaterPassIsSilent)]_vars

\* the symbols whose type members resolveTypeMembers hands to
\* resolveTypeMember for klass
ParentsOf(g, klass) ==
    {p \in {superClass(g, klass)} \cup {mixins(g, klass)[i] : i \in 1..Len(mixins(g, klass))} : exists(p)}
\* klass has a type parameter under the name of tp
HasTypeParameterFor(g, klass, tp) ==
    /\ exists(findMember(g, klass, dataAllowingNone(g, tp).name))
    /\ \/ isTypeMember(g, findMember(g, klass, dataAllowingNone(g, tp).name))
       \/ isTypeArgument(g, findMember(g, klass, dataAllowingNone(g, tp).name))
\* resolveTypeMember applied to a fresh pass over the current state
Outcome(klass, parent, tp) ==
    resolveTypeMember(Pass(gs, pages, {}), parent, tp, klass, dataAllowingNone(gs, tp).name)
EmitsMismatchOnly(r, klass) ==
    /\ Len(r.errors) = 1 /\ r.errors[1].code = "ParentVarianceMismatch"
    /\ r.typeAliases[klass.idx + 1] = <<>>
    /\ ~r.found
AliasesSilently(r, klass, tp) ==
    /\ r.errors = <<>>
    /\ r.typeAliases[klass.idx + 1] = << <<tp, findMember(gs, klass, dataAllowingNone(gs, tp).name)>> >>
    /\ r.found
\* every (class, parent, type member of the parent) the class has a type
\* parameter for
MatchedCases ==
    {c \in [klass : ResolvedClasses(gs), parent : ResolvedClasses(gs), tp : RefsOf(gs, "TypeMember")] :
        /\ c.parent \in ParentsOf(gs, c.klass)
        /\ Contains(typeMembers(gs, c.parent), c.tp)
        /\ HasTypeParameterFor(gs, c.klass, c.tp)}
ChildVariance(c) == varianceOf(gs, findMember(gs, c.klass, dataAllowingNone(gs, c.tp).name))

\* C23: with a type parameter under the parent type member's name,
\* resolveTypeMember reports the variance mismatch and records no alias
\* exactly when the class is not a plain class, the two variances differ and
\* neither is invariant; otherwise it records the alias and reports nothing.
C23_MismatchWhenNeitherInvariant ==
    pc = "ready" =>
        \A c \in MatchedCases :
            IF /\ ~isClassOrModuleClass(gs, c.klass)
               /\ ChildVariance(c) # varianceOf(gs, c.tp)
               /\ ChildVariance(c) # "Invariant"
               /\ varianceOf(gs, c.tp) # "Invariant"
            THEN EmitsMismatchOnly(Outcome(c.klass, c.parent, c.tp), c.klass)
            ELSE AliasesSilently(Outcome(c.klass, c.parent, c.tp), c.klass, c.tp)

\* C23 as the code has it: the mismatch is reported, and no alias recorded,
\* exactly when the class does not derive from Class, the two variances
\* differ and the variance of the child's member is not invariant.
C23_MismatchWhenChildVariant ==
    pc = "ready" =>
        \A c \in MatchedCases :
            IF /\ ~derivesFrom(gs, c.klass, Class)
               /\ ChildVariance(c) # varianceOf(gs, c.tp)
               /\ ChildVariance(c) # "Invariant"
            THEN EmitsMismatchOnly(Outcome(c.klass, c.parent, c.tp), c.klass)
            ELSE AliasesSilently(Outcome(c.klass, c.parent, c.tp), c.klass, c.tp)

\* a pass has reported the mismatch for a class whose parent's type member
\* is invariant, and the class still holds its variant member
C23_Witness ==
    /\ pc = "ready" /\ last.op = "finalizeSymbols" /\ last.status = "ok"
    /\ \E c \in MatchedCases :
           /\ c.klass \in UserClasses(gs)
           /\ varianceOf(gs, c.tp) = "Invariant"
           /\ ChildVariance(c) # "Invariant"
           /\ \E i \in 1..Len(last.errors) :
                  last.errors[i].code = "ParentVarianceMismatch" /\ last.errors[i].klass = c.klass

\* every (class, parent, type member of the parent) where the class has a
\* member of another kind under the name of the type member
WrongKindCases ==
    {c \in [klass : ResolvedClasses(gs), parent : ResolvedClasses(gs), tp : RefsOf(gs, "TypeMember")] :
        /\ c.parent \in ParentsOf(gs, c.klass)
        /\ Contains(typeMembers(gs, c.parent), c.tp)
        /\ exists(findMember(gs, c.klass, dataAllowingNone(gs, c.tp).name))
        /\ ~HasTypeParameterFor(gs, c.klass, c.tp)}
NameOfTp(c) == dataAllowingNone(gs, c.tp).name
\* the member of klass under the disambiguated name derived from name
Replacement(g, pg, klass, name) == findMember(g, klass, lookupNameUnique(g, pg, "TypeVarName", name, 1).ret)
\* what every returning call leaves: one diagnostic, no alias, the member
\* under the name as it was, and a fixed invariant type member of the class
\* under the disambiguated name
LeavesReplacement(r, c) ==
    /\ Len(r.errors) = 1 /\ r.errors[1].code = "NotATypeVariable"
    /\ r.typeAliases[c.klass.idx + 1] = <<>>
    /\ ~r.found
    /\ findMember(r.g, c.klass, NameOfTp(c)) = findMember(gs, c.klass, NameOfTp(c))
    /\ dataAllowingNone(r.g, findMember(gs, c.klass, NameOfTp(c)))
          = dataAllowingNone(gs, findMember(gs, c.klass, NameOfTp(c)))
    /\ KeyOf(r.g, r.pg, lookupNameUnique(r.g, r.pg, "TypeVarName", NameOfTp(c), 1).ret)
          = UniqueKey("TypeVarName", NameOfTp(c), 1)
    /\ exists(Replacement(r.g, r.pg, c.klass, NameOfTp(c)))
    /\ isTypeMember(r.g, Replacement(r.g, r.pg, c.klass, NameOfTp(c)))
    /\ varianceOf(r.g, Replacement(r.g, r.pg, c.klass, NameOfTp(c))) = "Invariant"
    /\ "FIXED" \in dataAllowingNone(r.g, Replacement(r.g, r.pg, c.klass, NameOfTp(c))).flags
    /\ dataAllowingNone(r.g, Replacement(r.g, r.pg, c.klass, NameOfTp(c))).owner = c.klass
    /\ Contains(typeMembers(r.g, c.klass), Replacement(r.g, r.pg, c.klass, NameOfTp(c)))
\* the replacement is a type member the call has created
ReplacementIsNew(r, c) ==
    /\ Len(r.g.typeMembers) = Len(gs.typeMembers) + 1
    /\ Replacement(r.g, r.pg, c.klass, NameOfTp(c)) = Ref("TypeMember", Len(gs.typeMembers))
    /\ Len(typeMembers(r.g, c.klass)) = Len(typeMembers(gs, c.klass)) + 1

\* C24: with a member of another kind under the parent type member's name,
\* a returning resolveTypeMember emits one diagnostic, enters a new fixed
\* invariant type member under the disambiguated name, leaves the member
\* under the name untouched and records no alias.
C24_WrongKindEntersNew ==
    pc = "ready" =>
        \A c \in WrongKindCases :
            Outcome(c.klass, c.parent, c.tp).status = "ok" =>
                /\ LeavesReplacement(Outcome(c.klass, c.parent, c.tp), c)
                /\ ReplacementIsNew(Outcome(c.klass, c.parent, c.tp), c)

\* C24 as the code has it: the type member under the disambiguated name is
\* entered by the first call and found again by every later one, which
\* repeats the diagnostic and creates nothing.
C24_WrongKindLeavesReplacement ==
    pc = "ready" =>
        \A c \in WrongKindCases :
            Outcome(c.klass, c.parent, c.tp).status = "ok" =>
                /\ LeavesReplacement(Outcome(c.klass, c.parent, c.tp), c)
                /\ IF exists(Replacement(gs, pages, c.klass, NameOfTp(c)))
                   THEN /\ Outcome(c.klass, c.parent, c.tp).g = gs
                        /\ Outcome(c.klass, c.parent, c.tp).pg = pages
                   ELSE ReplacementIsNew(Outcome(c.klass, c.parent, c.tp), c)

\* a second pass has returned over a class that holds a method under the
\* name of its parent's type member and the replacement of the first pass
C24_Witness ==
    /\ pc = "ready" /\ last.op = "finalizeSymbols" /\ last.status = "ok"
    /\ Len(last.errors) > 0
    /\ \E c \in WrongKindCases :
           /\ c.klass \in UserClasses(gs)
           /\ exists(Replacement(gs, pages, c.klass, NameOfTp(c)))
           /\ Outcome(c.klass, c.parent, c.tp).status = "ok"

\* every class reachable from the members of from over superclass and mixin
\* edges, the members included
RECURSIVE AncReach(_, _, _)
AncReach(g, from, fuel) ==
    LET next == from \cup UNION {ParentsOf(g, k) : k \in from}
    IN  IF fuel = 0 \/ next = from THEN from ELSE AncReach(g, next, fuel - 1)
\* no class is its own ancestor: the hierarchy holds no cyclic mixin
Acyclic(g) ==
    \A k \in ResolvedClasses(g) : k \notin AncReach(g, ParentsOf(g, k), Len(g.classAndModules))
UserFacingCodes ==
    {"ParentTypeNotDeclared", "NotATypeVariable", "ParentVarianceMismatch", "TypeMembersInWrongOrder",
     "VariantTypeMemberInClass"}
\* klass has a type parameter under name or under the disambiguated name
OwnTypeParameter(g, pg, klass, name) ==
    \/ /\ exists(findMember(g, klass, name))
       /\ isTypeMember(g, findMember(g, klass, name)) \/ isTypeArgument(g, findMember(g, klass, name))
    \/ /\ exists(Replacement(g, pg, klass, name))
       /\ isTypeMember(g, Replacement(g, pg, klass, name))
       /\ Contains(typeMembers(g, klass), Replacement(g, pg, klass, name))
\* every class has a type parameter for every type member of its superclass
\* and of the symbols of its mixin list
Covered(g, pg) ==
    \A k \in ResolvedClasses(g) : \A p \in ParentsOf(g, k) :
        \A i \in 1..Len(typeMembers(g, p)) :
            OwnTypeParameter(g, pg, k, dataAllowingNone(g, typeMembers(g, p)[i]).name)

LinOps == {"computeClassLinearization", "computeLinearization"}
NoDuplicates(list) == \A i, j \in 1..Len(list) : list[i] = list[j] => i = j
Classes(g) == RefsOf(g, "ClassOrModule") \ {noSymbol}

\* m is in the resolved mixin list of klass or of a class further up the
\* superclass chain of klass
RECURSIVE ChainHolds(_, _, _, _)
ChainHolds(g, klass, m, fuel) ==
    /\ fuel > 0
    /\ exists(klass)
    /\ \/ Contains(mixins(g, klass), m)
       \/ ChainHolds(g, superClass(g, klass), m, fuel - 1)

\* the classes klass reaches through one or more mixin edges
RECURSIVE MixinReach(_, _, _)
MixinReach(g, from, fuel) ==
    LET next == from \cup UNION {{mixins(g, k)[i] : i \in 1..Len(mixins(g, k))} : k \in from}
    IN  IF fuel = 0 \/ next = from THEN from ELSE MixinReach(g, next, fuel - 1)
ReachesItself(g, klass) ==
    klass \in MixinReach(g, {mixins(g, klass)[i] : i \in 1..Len(mixins(g, klass))}, Len(g.classAndModules))

\* C17: after computeClassLinearization(S) has returned, whatever the
\* declared mixins were (modules, classes used as mixins, stub mixins, in any
\* combination and order), the mixin list of S holds no symbol twice.
C17_NoDuplicateMixins ==
    (last.op = "computeClassLinearization" /\ last.status = "ok") => NoDuplicates(mixins(gs, last.sym))

\* C18: after linearization, a class whose superclass derives from a module
\* M (M is in the resolved mixin list of the superclass or of a class
\* further up the superclass chain) does not hold M in its own resolved
\* mixin list.
C18_NoInheritedMixin ==
    (last.op \in LinOps /\ last.status = "ok") =>
        \A klass \in Classes(gs), m \in Classes(gs) :
            (/\ isClassOrModuleLinearizationComputed(gs, klass)
             /\ isClassOrModuleModule(gs, m)
             /\ ChainHolds(gs, superClass(gs, klass), m, Len(gs.classAndModules)))
                => ~Contains(mixins(gs, klass), m)

\* C19: the latch of a class, once set, stays set, and a
\* computeClassLinearization or computeLinearization call made while it is
\* set leaves the mixin list of the class as it was and emits no diagnostic
\* for the class.
C19_LatchedIsFixedPoint ==
    [][\A klass \in Classes(gs) :
           isClassOrModuleLinearizationComputed(gs, klass) =>
               /\ isClassOrModuleLinearizationComputed(gs', klass)
               /\ last'.op \in LinOps =>
                      /\ mixins(gs', klass) = mixins(gs, klass)
                      /\ \A d \in last'.diags : d.klass # klass
      ]_vars

\* computeClassLinearization has just returned for a class whose latch an
\* earlier call had set: the resolved list holds a class used as a mixin, for
\* which the earlier call emitted a diagnostic, and this call emitted none
C19_Witness ==
    /\ pc = "ready"
    /\ last.op = "computeClassLinearization" /\ last.status = "ok" /\ last.hit
    /\ last.diags = {}
    /\ isClassOrModuleLinearizationComputed(gs, last.sym)
    /\ \E i \in 1..Len(mixins(gs, last.sym)) :
           /\ mixins(gs, last.sym)[i] \in UserClasses(gs)
           /\ ~isClassOrModuleModule(gs, mixins(gs, last.sym)[i])

\* C20: for a class that reaches itself through mixin edges (it lists
\* itself, or lists a class whose mixins lead back to it),
\* computeClassLinearization ends in the fatal "Loop in mixins" violation:
\* it neither returns with the latch set nor recurses without end.
C20_CycleIsLoopInMixins ==
    pc = "ready" =>
        \A klass \in UserClasses(gs) :
            (~isClassOrModuleLinearizationComputed(gs, klass) /\ ReachesItself(gs, klass))
                => computeClassLinearization(gs, {}, klass, {}).status = "loop_in_mixins"

MixinSet(g, klass) == {mixins(g, klass)[i] : i \in 1..Len(mixins(g, klass))}
\* klass, its mixins, and the same for every class up its superclass chain
RECURSIVE ChainAndMixins(_, _, _)
ChainAndMixins(g, klass, fuel) ==
    IF fuel = 0 \/ ~exists(klass) THEN {}
    ELSE {klass} \cup MixinSet(g, klass) \cup ChainAndMixins(g, superClass(g, klass), fuel - 1)
IsStubbed(g, mixin) == superClass(g, mixin) \in {StubSuperClass, StubModule}
\* the call that has just returned found the latch of its class unset
Linearizes(op) == last'.op = op /\ last'.status = "ok" /\ ~last'.hit
\* the diagnostic and the whole chain of the mixin in the list of the class
SplicedWhole(g, diags, klass, mixin) ==
    /\ [klass |-> klass, mixin |-> mixin] \in diags
    /\ ChainAndMixins(g, mixin, Len(g.classAndModules)) \subseteq MixinSet(g, klass)

FullOf(klass) == fullLinearizationSlow(computeClassLinearization(gs, {}, klass, {}), klass, {})
\* the position of the first occurrence of x in list
FirstPos(list, x) == CHOOSE i \in 1..Len(list) : list[i] = x /\ \A j \in 1..(i - 1) : list[j] # x
\* the classes up the superclass chain of klass
RECURSIVE SuperChainFrom(_, _, _)
SuperChainFrom(g, klass, fuel) ==
    IF fuel = 0 \/ ~exists(superClass(g, klass)) THEN {}
    ELSE {superClass(g, klass)} \cup SuperChainFrom(g, superClass(g, klass), fuel - 1)
SuperChain(g, klass) == SuperChainFrom(g, klass, Len(g.classAndModules))
UnderNonModule(g, klass, m) ==
    \E x \in MixinSet(g, klass) :
        ~isClassOrModuleModule(g, x) /\ m \in ChainAndMixins(g, x, Len(g.classAndModules))
\* a module of the mixin list of klass that no non-module mixin brings is
\* followed by a non-module mixin that is not up the superclass chain
ModuleAheadOfClass(g, klass, list) ==
    \E i, j \in 1..Len(list) :
        /\ i < j
        /\ list[i] \in MixinSet(g, klass) /\ isClassOrModuleModule(g, list[i])
        /\ ~UnderNonModule(g, klass, list[i])
        /\ list[j] \in MixinSet(g, klass) /\ ~isClassOrModuleModule(g, list[j])
        /\ list[j] \notin SuperChain(g, klass)
\* the entries of the mixin list of klass come in the order of that list
InListOrder(g, klass, list) ==
    \A a, b \in MixinSet(g, klass) :
        (a \in (MixinSet(g, klass) \ {klass}) /\ b # klass
         /\ FirstPos(mixins(g, klass), a) < FirstPos(mixins(g, klass), b))
            => FirstPos(list, a) < FirstPos(list, b)
FullBasics(r, klass) ==
    /\ r.status # "bad_args"
    /\ r.status = "ok" =>
           /\ Len(r.list) > 0 /\ r.list[1] = klass
           /\ NoDuplicates(r.list)
           /\ {r.list[i] : i \in 1..Len(r.list)} = AncReach(r.g, {klass}, Len(r.g.classAndModules))

\* C27: fullLinearizationSlow of K never fails its assertion, and the list
\* it returns starts with K, holds every ancestor of K once, the full
\* chains of the non-module mixins before the modules of K's mixin list and
\* the chain of K's superclass last.
C27_ClassesThenModules ==
    pc = "ready" =>
        \A klass \in Classes(gs) :
            LET r == FullOf(klass)
            IN  /\ FullBasics(r, klass)
                /\ r.status = "ok" => ~ModuleAheadOfClass(r.g, klass, r.list)

\* C27 as the code has it: the entries of K's resolved mixin list follow K
\* in the order of that list, modules and inlined chains of non-modules
\* interleaved.
C27_MixinsInListOrder ==
    pc = "ready" =>
        \A klass \in Classes(gs) :
            LET r == FullOf(klass)
            IN  /\ FullBasics(r, klass)
                /\ r.status = "ok" => InListOrder(r.g, klass, r.list)

\* a class whose resolved mixin list holds a module ahead of a class used as
\* a mixin: its full linearization has the module first, and the superclass
\* the class brings is not walked a second time
C27_Witness ==
    /\ pc = "ready"
    /\ \E klass \in UserClasses(gs) :
           /\ isClassOrModuleLinearizationComputed(gs, klass)
           /\ FullOf(klass).status = "ok"
           /\ ModuleAheadOfClass(gs, klass, FullOf(klass).list)
           /\ Contains(mixins(gs, klass), superClass(gs, klass))
           /\ Len(FullOf(klass).list) >= 5

\* the accumulating lists tried: empty, one class, and the chain a class
\* used as a mixin leaves
PrevLists == {<<>>, <<Object, BasicObject>>} \cup {<<k>> : k \in UserClasses(gs) \cup {Object}}
\* a class S, a genuine module M that can be linearized, and the list so far
ModuleInputs ==
    {c \in [s : UserClasses(gs) \cup {Object}, m : UserClasses(gs), prev : PrevLists] :
        /\ isClassOrModuleModule(gs, c.m)
        /\ computeClassLinearization(gs, {}, c.m, {}).status = "ok"}
\* the module branch of the loop of S for M
ModuleAdded(c) == AddModule(computeClassLinearization(gs, {}, c.m, {}), c.s, c.m, c.prev)
\* neither M nor an entry of its linearized list is in the list so far or
\* derived from by the superclass of S
Fresh(g, c) ==
    \A e \in {c.m} \cup MixinSet(g, c.m) :
        ~Contains(c.prev, e) /\ ~derivesFrom(g, superClass(g, c.s), e)
\* list without the repetitions of its elements
RECURSIVE FirstOccurrences(_)
FirstOccurrences(list) ==
    IF list = <<>> THEN <<>>
    ELSE IF Contains(SubSeq(list, 1, Len(list) - 1), list[Len(list)])
    THEN FirstOccurrences(SubSeq(list, 1, Len(list) - 1))
    ELSE Append(FirstOccurrences(SubSeq(list, 1, Len(list) - 1)), list[Len(list)])

AccLists == {mixins(gs, k) : k \in Classes(gs)}
\* maybeAddMixin for the class forSym and the entry at place i of list
Inserted(forSym, list, i, pos) == maybeAddMixin(gs, forSym, list, list[i], superClass(gs, forSym), pos)
Later(a, b) == IF a >= b THEN a ELSE b
CursorInRange(r, pos) == r.pos >= pos /\ r.pos <= Len(r.list)
\* the entries ahead of the cursor are the ones that were there
HeadKept(r, list, pos) == SubSeq(r.list, 1, pos) = SubSeq(list, 1, pos)

\* C29: maybeAddMixin for a module M that the list holds leaves M at the
\* later of its position and the cursor, keeps what was ahead of the cursor
\* ahead of it, and returns a cursor between the one passed in and the
\* length of the list.
C29_PresentMovesToLater ==
    pc = "ready" =>
        \A forSym \in UserClasses(gs) \cup {Object}, list \in AccLists :
            \A i \in 1..Len(list), pos \in 0..Len(list) :
                LET r == Inserted(forSym, list, i, pos)
                IN  (r.status = "ok" /\ isClassOrModuleModule(gs, list[i])) =>
                        /\ FirstPos(r.list, list[i]) - 1 = Later(FirstPos(list, list[i]) - 1, pos)
                        /\ HeadKept(r, list, pos)
                        /\ CursorInRange(r, pos)

\* C29 as the code has it: the list is left as it is, M included; the cursor
\* returned is the later of the place after M and the cursor passed in, or
\* the cursor passed in when the superclass derives from M.
C29_PresentMovesCursor ==
    pc = "ready" =>
        \A forSym \in UserClasses(gs) \cup {Object}, list \in AccLists :
            \A i \in 1..Len(list), pos \in 0..Len(list) :
                LET r == Inserted(forSym, list, i, pos)
                IN  r.status = "ok" =>
                        /\ r.list = list
                        /\ r.pos = IF derivesFrom(gs, superClass(gs, forSym), list[i]) THEN pos
                                   ELSE Later(FirstPos(list, list[i]), pos)
                        /\ HeadKept(r, list, pos)
                        /\ CursorInRange(r, pos)

\* a list holds a module behind another entry, and the call for the entry in
\* front with the cursor behind it leaves both where they were
C29_Witness ==
    /\ pc = "ready"
    /\ \E list \in AccLists :
           /\ Len(list) >= 2 /\ list[1] # list[2]
           /\ isClassOrModuleModule(gs, list[1]) /\ list[1] \in UserClasses(gs)
           /\ Inserted(Object, list, 1, 1).status = "ok"
           /\ ~derivesFrom(gs, superClass(gs, Object), list[1])
           /\ Inserted(Object, list, 1, 1).list = list
           /\ Inserted(Object, list, 1, 1).pos = 1
           /\ Inserted(Object, list, 2, 0).pos = 2

\* the classes whose list is still the declared one
Unlinearized == {k \in UserClasses(gs) \cup {Object} : ~isClassOrModuleLinearizationComputed(gs, k)}
Genuine(g, m) == isClassOrModuleModule(g, m) /\ ~IsStubbed(g, m)
\* places i < j of the declared list of klass hold two modules the claim is
\* about, r being the result of linearizing klass
DeclaredPair(r, klass, i, j) ==
    LET decl == mixins(gs, klass)
    IN  /\ i < j
        /\ decl[i] # decl[j]
        /\ Genuine(r.g, decl[i]) /\ Genuine(r.g, decl[j])
        /\ decl[i] \notin MixinSet(r.g, decl[j]) /\ decl[j] \notin MixinSet(r.g, decl[i])
        /\ ~derivesFrom(r.g, superClass(r.g, klass), decl[i])
        /\ ~derivesFrom(r.g, superClass(r.g, klass), decl[j])
Precedes(list, a, b) == Contains(list, a) /\ Contains(list, b) /\ FirstPos(list, a) < FirstPos(list, b)
\* the mixin at place j is new to the list when the loop comes to it: no
\* earlier place holds it or a mixin that brings it
NewAt(r, klass, j) ==
    \A k \in 1..(j - 1) :
        /\ mixins(gs, klass)[k] # mixins(gs, klass)[j]
        /\ mixins(gs, klass)[j] \notin MixinSet(r.g, mixins(gs, klass)[k])
AllGenuine(r, klass) == \A k \in 1..Len(mixins(gs, klass)) : Genuine(r.g, mixins(gs, klass)[k])

Observable(g, pg) == [g |-> g, keys |-> [id \in 0..(namesUsed(g) - 1) |-> KeyOf(g, pg, id)]]
OwnCalls == {"deepCopy", "operateOnOther"}

\* C15: once a copy exists, a call on one of the two GlobalStates (intern,
\* enter, rename, unfreeze, linearization, resolution) leaves every
\* observable part of the other as it was, whichever of the two is the copy.
C15_CopyIsolated ==
    [][(Copied /\ last'.op \notin OwnCalls) => Observable(other'.g, pages') = Observable(other.g, pages)]_vars

\* the original and the copy have each entered a name after the copy was
\* made, the copy last, and both read back the texts they entered
C15_Witness ==
    /\ pc = "ready" /\ Copied /\ ~other.isCopy
    /\ last.op = "enterNameUTF8" /\ last.status = "ok"
    /\ namesUsed(gs) > BootNameCount /\ namesUsed(other.g) > BootNameCount
    /\ KeyOf(gs, pages, BootNameCount).text # KeyOf(other.g, pages, BootNameCount).text
    /\ KeyOf(gs, pages, BootNameCount).text \in ShortStrings
    /\ KeyOf(other.g, pages, BootNameCount).text \in ShortStrings

SameLookups(g, c, pg) ==
    /\ \A id \in 0..(namesUsed(g) - 1) :
           LookupByKey(g, pg, KeyOf(g, pg, id)).ret # noName
               => /\ LookupByKey(c, pg, KeyOf(g, pg, id)).status = "ok"
                  /\ LookupByKey(c, pg, KeyOf(g, pg, id)).ret # noName
                  /\ KeyOf(c, pg, LookupByKey(c, pg, KeyOf(g, pg, id)).ret) = KeyOf(g, pg, id)
    /\ \A owner \in RefsOf(g, "ClassOrModule") \cup RefsOf(g, "Method") :
           \A name \in DOMAIN dataAllowingNone(g, owner).members :
               exists(findMember(g, owner, name))
                   => /\ exists(findMember(c, owner, name))
                      /\ findMember(c, owner, name).kind = findMember(g, owner, name).kind
                      /\ dataAllowingNone(c, findMember(c, owner, name)).name
                            = dataAllowingNone(g, findMember(g, owner, name)).name
SameIds(g, c, pg) ==
    /\ namesUsed(c) = namesUsed(g)
    /\ \A id \in 0..(namesUsed(g) - 1) :
           /\ KeyOf(c, pg, id) = KeyOf(g, pg, id)
           /\ LookupByKey(c, pg, KeyOf(g, pg, id)) = LookupByKey(g, pg, KeyOf(g, pg, id))
    /\ \A kind \in SymbolKinds : Arena(c, kind) = Arena(g, kind)
    /\ c.globalStateId = g.globalStateId

\* C16: right after deepCopy, with either value of preserveIds, every
\* lookup that succeeds in the original (a name by its key, a symbol by
\* owner and name) succeeds in the copy with an equivalent result; with
\* preserveIds the name ids, the symbols of the five arenas at their indices
\* and the globalStateId are those of the original.
C16_CopyAnswersLookups ==
    (Copied /\ last.op = "deepCopy") =>
        /\ SameLookups(gs, other.g, pages)
        /\ other.keepId => SameIds(gs, other.g, pages)

\* a GlobalState with an entered name and a resolved definition has been
\* copied without preserveIds, and the copy finds the entered name
C16_Witness ==
    /\ Copied /\ last.op = "deepCopy" /\ ~other.keepId
    /\ namesUsed(gs) > BootNameCount
    /\ \E k \in UserClasses(gs) : isClassOrModuleLinearizationComputed(gs, k)
    /\ LookupByKey(other.g, pages, KeyOf(gs, pages, BootNameCount)).ret = BootNameCount
    /\ other.g.globalStateId # gs.globalStateId

(***************************************************************************)
(* Passes over the whole table: properties.                                *)
(***************************************************************************)
Latched(g) == {k \in Classes(g) : isClassOrModuleLinearizationComputed(g, k)}

\* the state in which computeClassLinearization(klass) writes the new list:
\* the call for the superclass has returned, then the loop over the mixins
AtRewrite(g, klass) ==
    LET s == IF exists(superClass(g, klass))
             THEN computeClassLinearization(g, {}, superClass(g, klass), {klass})
             ELSE LinRes(g, {}, "ok")
    IN  IF s.status # "ok" THEN WithList(s, <<>>)
        ELSE MixinLoop(WithList(s, <<>>), klass, mixins(s.g, klass), 1, {klass}, {StubSuperClass, StubModule})

\* at the rewrite of klass its superclass is latched and klass is not: the
\* rewrite that follows is the first one of klass, and the latch set with
\* it keeps every later call away from the list
RewrittenOnceAfterSuper(g, klass) ==
    LET l == AtRewrite(g, klass)
    IN  /\ l.status = "ok"
        /\ ~isClassOrModuleLinearizationComputed(l.g, klass)
        /\ exists(superClass(g, klass)) => isClassOrModuleLinearizationComputed(l.g, superClass(g, klass))
        /\ Latched(g) \subseteq Latched(l.g)
        /\ \A k \in Latched(g) : mixins(l.g, k) = mixins(g, k)

\* C31: on a table whose superclass-and-mixin graph is acyclic,
\* computeLinearization returns; afterwards every class of index 1 and more
\* has its latch set; a list that was latched before the pass is not
\* rewritten, and a class that was not latched is rewritten once, in a state
\* in which its superclass is latched and the class itself is not.
C31_AcyclicPassLatchesOnce ==
    [][(pc = "ready" /\ last'.op = "computeLinearization" /\ Acyclic(gs)) =>
           /\ last'.status = "ok" /\ pc' = "ready"
           /\ Latched(gs') = Classes(gs')
           /\ \A k \in Latched(gs) : mixins(gs', k) = mixins(gs, k)
           /\ \A k \in Classes(gs) \ Latched(gs) : RewrittenOnceAfterSuper(gs, k)
      ]_vars

\* computeLinearization has returned on a table in which a definition under
\* Object lists a module that lists another module; the pass resolved the
\* list to both, and a second pass has found every latch set
C31_Witness ==
    /\ pc = "ready" /\ last.op = "computeLinearization" /\ last.status = "ok" /\ last.hit
    /\ Acyclic(gs)
    /\ Latched(gs) = Classes(gs)
    /\ \E k \in UserClasses(gs) :
           /\ superClass(gs, k) = Object
           /\ Len(mixins(gs, k)) = 2
           /\ \A i \in 1..2 : isClassOrModuleModule(gs, mixins(gs, k)[i])

\* the pass that finalizeSymbols starts once the linearizer has returned
PassAfter(l, pg) == Pass(l.g, pg, l.diags)
SymbolsOf(list) == {list[i] : i \in 1..Len(list)}

\* t is the pass before the loop of finalizeSymbols reaches class i: a call
\* for a latched symbol returns the pass as it is, the call for class i
\* clears no latch, and so on to the end of the loop, where no symbol has
\* been begun twice and every symbol begun has returned
RECURSIVE LatchesKeptFrom(_, _)
LatchesKeptFrom(t, i) ==
    IF t.status # "ok" \/ i >= Len(t.g.classAndModules)
    THEN /\ NoDuplicates(t.begun)
         /\ SymbolsOf(t.begun) = t.resolved
         /\ t.status = "ok" => (t.done = t.resolved /\ ResolvedClasses(t.g) \subseteq t.resolved)
    ELSE LET u == resolveTypeMembers(t, Ref("ClassOrModule", i))
         IN  /\ \A sym \in t.resolved : resolveTypeMembers(t, sym) = t
             /\ t.resolved \subseteq u.resolved
             /\ SubSeq(u.begun, 1, Len(t.begun)) = t.begun
             /\ LatchesKeptFrom(u, i + 1)

\* C32: in a finalizeSymbols pass every class is begun at most once and the
\* latch of a symbol is never cleared; resolveTypeMembers called on a symbol
\* whose latch is set returns at once: no diagnostic, no symbol, no alias,
\* no reordering.
C32_ResolvedOnce ==
    pc = "ready" =>
        LET l == computeLinearization(gs)
        IN  l.status = "ok" => LatchesKeptFrom(PassAfter(l, pages), 1)

\* a pass has returned in which a definition under Object with a mixin was
\* resolved after Object, whose latch the pass had set before: a diagnostic
\* was emitted for the definition, and an alias recorded for it
C32_Witness ==
    /\ pc = "ready" /\ last.op = "finalizeSymbols" /\ last.status = "ok"
    /\ Len(last.errors) > 0
    /\ \E k \in UserClasses(gs) :
           /\ superClass(gs, k) = Object
           /\ Len(mixins(gs, k)) > 0
           /\ Len(last.aliases[k.idx + 1]) > 0
           /\ \E i \in 1..Len(last.errors) : last.errors[i].klass = k

\* the pairs (C, P) of the pass from the current state for which a type
\* member of P was matched against C before the call for P had returned
EarlyReads == finalizeSymbols(gs, pages).early

\* C33: whenever resolveTypeMember matches a class C against a type member
\* of a parent P (the superclass of C or an entry of its resolved mixin
\* list), the resolution of P has run to completion.
C33_ParentDoneBeforeChild ==
    pc = "ready" => EarlyReads = {}

\* C33 for hierarchies in which no class is its own ancestor
C33_ParentDoneBeforeChildAcyclic ==
    (pc = "ready" /\ Acyclic(gs)) => EarlyReads = {}

\* a pass has returned on an acyclic hierarchy in which a definition has a
\* mixin with a type member and a superclass with a type member, and holds
\* an alias for each
C33_Witness ==
    /\ pc = "ready" /\ last.op = "finalizeSymbols" /\ last.status = "ok"
    /\ Acyclic(gs)
    /\ \E k \in UserClasses(gs) :
           /\ Len(mixins(gs, k)) > 0
           /\ exists(superClass(gs, k))
           /\ Len(typeMembers(gs, superClass(gs, k))) > 0
           /\ \E i \in 1..Len(mixins(gs, k)) : Len(typeMembers(gs, mixins(gs, k)[i])) > 0
           /\ Len(last.aliases[k.idx + 1]) >= 2

(***************************************************************************)
(* Hash table: properties.                                                 *)
(***************************************************************************)
Buckets(g) == 0..(Len(g.namesByHash) - 1)
SlotsOf(g, id) == {b \in Buckets(g) : Slot(g.namesByHash, b).second = id}

TableOK(g, pg) ==
    /\ IsPowerOfTwo(Len(g.namesByHash))
    /\ Len(g.namesByHash) = 2 * g.namesCapacity
    /\ \A id \in 1..(namesUsed(g) - 1) :
           /\ Cardinality(SlotsOf(g, id)) = 1
           /\ \A b \in SlotsOf(g, id) : Slot(g.namesByHash, b).first = HashOfKey(KeyOf(g, pg, id))
    /\ \A b \in Buckets(g) :
           /\ Slot(g.namesByHash, b).second # 0 => Slot(g.namesByHash, b).second < namesUsed(g)
           /\ Slot(g.namesByHash, b).second = 0 => Slot(g.namesByHash, b) = EmptySlot

RECURSIVE ProbesToEmpty(_, _, _)
ProbesToEmpty(tab, bucketId, probeCount) ==
    IF Slot(tab, bucketId).second = 0 \/ probeCount >= Len(tab) THEN probeCount
    ELSE ProbesToEmpty(tab, Mask(bucketId + probeCount, Len(tab)), probeCount + 1)

Entries(g) == Cardinality({b \in Buckets(g) : Slot(g.namesByHash, b).second # 0})

ProbesEnd(g, pg) ==
    /\ 2 * Entries(g) <= Len(g.namesByHash)
    /\ \A b \in Buckets(g) : ProbesToEmpty(g.namesByHash, b, 1) < Len(g.namesByHash)
    /\ \A key \in KeyInputs(g), bounded \in BOOLEAN :
           LET p == Probe(g, pg, key, bounded)
           IN  /\ ~p.hang
               /\ p.probeCount < Len(g.namesByHash)
               /\ p.found # noName \/ Slot(g.namesByHash, p.bucketId).second = 0

UTF8Ids(g) == {id \in 1..(namesUsed(g) - 1) : NameAt(g, id).kind = "UTF8"}
RegionOf(g, id) == NameAt(g, id).utf8
PagesOf(g) == {g.strings[i] : i \in 1..Len(g.strings)}

\* the region is a range of one page of g
InsidePage(g, pg, v) ==
    /\ v.page \in PagesOf(g)
    /\ v.page \in 1..Len(pg)
    /\ v.off >= 0 /\ v.off + v.len <= Len(pg[v.page])
\* two regions that hold at least one common byte
Overlap(v, w) ==
    /\ v.page = w.page /\ v.len > 0 /\ w.len > 0
    /\ v.off < w.off + w.len /\ w.off < v.off + v.len

RegionsOK(g, pg) ==
    /\ \A id \in UTF8Ids(g) : InsidePage(g, pg, RegionOf(g, id))
    /\ \A i, j \in UTF8Ids(g) : i # j => ~Overlap(RegionOf(g, i), RegionOf(g, j))
\* every name g holds reads the same text after the step as before
TextsKept(g, pg, pgAfter) ==
    \A id \in UTF8Ids(g) : ViewText(pgAfter, RegionOf(g, id)) = ViewText(pg, RegionOf(g, id))
\* the call has entered a string
EnteredString == last'.op = "enterNameUTF8" /\ last'.status = "ok" /\ ~last'.hit

\* C36: every region enterString returns lies inside one page of the
\* GlobalState and shares no byte with a region returned earlier, for
\* strings shorter than, as long as and longer than a page in any order;
\* once a copy exists, a string entered by either GlobalState shares no byte
\* with a region of a name the other holds, every name of both reads the
\* text it read before, and the first non-empty string the copy enters
\* starts a page the original does not have.
C36_RegionsDisjoint ==
    [][/\ RegionsOK(gs', pages')
       /\ TextsKept(gs, pages, pages')
       /\ EnteredString =>
              LET v == RegionOf(gs', last'.ret)
              IN  /\ ViewText(pages', v) = last'.key.text
                  /\ \A id \in UTF8Ids(gs) : ~Overlap(v, RegionOf(gs, id))
                  /\ Copied => /\ \A id \in UTF8Ids(other.g) : ~Overlap(v, RegionOf(other.g, id))
                               /\ TextsKept(other.g, pages, pages')
                               /\ RegionsOK(other'.g, pages')
                  /\ (Copied /\ ~other.isCopy /\ v.len > 0) => v.page \notin PagesOf(other.g)
      ]_vars

\* the copy, made of a GlobalState that had entered a string longer than a
\* page, has entered a string as long as a page and then one longer than a
\* page, while the original entered a short string after the copy was made
C36_Witness ==
    /\ pc = "ready" /\ Copied /\ ~other.isCopy
    /\ last.op = "enterNameUTF8" /\ last.status = "ok" /\ ~last.hit
    /\ Len(last.key.text) > STRINGS_PAGE_SIZE
    /\ namesUsed(gs) = BootNameCount + 2
    /\ RegionOf(gs, BootNameCount).len = STRINGS_PAGE_SIZE
    /\ namesUsed(other.g) = BootNameCount + 2
    /\ RegionOf(other.g, BootNameCount).len > STRINGS_PAGE_SIZE
    /\ RegionOf(other.g, BootNameCount + 1).len \in 1..(STRINGS_PAGE_SIZE - 1)

(***************************************************************************)
(* findRenamedSymbol: properties.                                          *)
(***************************************************************************)
\* counters of the MangleRename names the runs can create
MangleNums == 1..(MaxRenamed + 1)
\* the owner holds a member under the MangleRename name of x with counter n
HasRenamed(g, pg, owner, x, n) ==
    LET nm == lookupNameUnique(g, pg, "MangleRename", x, n).ret
    IN  nm # noName /\ nm \in DOMAIN dataAllowingNone(g, owner).members
RenamedMember(g, pg, owner, x, n) ==
    dataAllowingNone(g, owner).members[lookupNameUnique(g, pg, "MangleRename", x, n).ret]
\* the largest element of a non-empty set of numbers
Largest(ns) == CHOOSE n \in ns : \A m \in ns : m <= n

\* what the function is to return for a symbol whose name is not unique
LargestRenamed(g, pg, owner, x) ==
    LET ns == {n \in MangleNums : HasRenamed(g, pg, owner, x, n)}
    IN  IF ns = {} THEN noSymbol ELSE RenamedMember(g, pg, owner, x, Largest(ns))

FindRenamedOK(g, pg, owner, sym) ==
    LET name == dataAllowingNone(g, sym).name
        nameData == NameAt(g, name)
        r == findRenamedSymbol(g, pg, owner, sym)
    IN  IF nameData.kind # "UNIQUE" THEN r.ret = LargestRenamed(g, pg, owner, name)
        ELSE IF nameData.uniqueNameKind = "MangleRename" /\ nameData.num > 1
        THEN HasRenamed(g, pg, owner, nameData.original, nameData.num - 1)
                 => r.ret = RenamedMember(g, pg, owner, nameData.original, nameData.num - 1)
        ELSE r.ret = noSymbol

\* C37: for a symbol with a name x that is not unique, findRenamedSymbol
\* returns the owner's member under the MangleRename name x$n with the largest
\* n the owner holds, and noSymbol when it holds none; for a symbol named x$n,
\* n > 1, the owner's member named x$(n-1); for x$1 and other unique names
\* noSymbol; whatever names other owners have interned.
C37_FindsLargestRenamed ==
    pc = "ready" =>
        \A owner \in ClassOwnerInputs(gs), sym \in RenameInputs(gs) : FindRenamedOK(gs, pages, owner, sym)

(***************************************************************************)
(* mangleRenameSymbol and lookupSymbolWithFlags: properties.               *)
(***************************************************************************)
\* the classes that hold entered symbols: the root and the entered classes
AllClasses(g) == ClassOwnerInputs(g)
\* counters of the MangleRename names these runs can create, and one more
MangledNums == 1..(MaxRenamedNames + 1)
AllNames(g) == 1..(namesUsed(g) - 1)
AllSymbols(g) == UNION {RefsOf(g, kind) : kind \in SymbolKinds}
\* the owner holds a symbol under the MangleRename name of x with counter n
Holds(g, pg, owner, x, n) ==
    exists(findMember(g, owner, lookupNameUnique(g, pg, "MangleRename", x, n).ret))
Held(g, pg, owner, x) == {n \in MangledNums : Holds(g, pg, owner, x, n)}
SmallestFree(g, pg, owner, x) ==
    LET held == Held(g, pg, owner, x)
    IN  CHOOSE n \in MangledNums : n \notin held /\ (1..(n - 1)) \subseteq held
Contiguous(g, pg, owner, x) ==
    LET held == Held(g, pg, owner, x)
    IN  held = 1..Cardinality(held)
ContiguousAll(g, pg) == \A owner \in AllClasses(g), x \in AllNames(g) : Contiguous(g, pg, owner, x)

\* the symbol `what`, held by its owner under origName before the step, is
\* held under the MangleRename name of origName with the smallest free
\* counter after it, and bears that name
MovedToSmallestFree(what, origName) ==
    LET owner == dataAllowingNone(gs, what).owner
        name == dataAllowingNone(gs', what).name
    IN  /\ origName \notin DOMAIN dataAllowingNone(gs', owner).members
        /\ NameAt(gs', name) = UniqueName("MangleRename", origName, SmallestFree(gs, pages, owner, origName))
        /\ findMember(gs', owner, name) = what
\* the record of every symbol is the same but for names and member tables
RecordsKept ==
    /\ ArenaLens(gs') = ArenaLens(gs)
    /\ \A ref \in AllSymbols(gs) :
           [dataAllowingNone(gs', ref) EXCEPT !.name = 0, !.members = NoMembers]
               = [dataAllowingNone(gs, ref) EXCEPT !.name = 0, !.members = NoMembers]
\* the effect of one successful mangleRenameSymbol(what, origName)
RenameEffect(what, origName) ==
    LET singleton == lookupSingletonClass(gs, what)
    IN  /\ MovedToSmallestFree(what, origName)
        /\ dataAllowingNone(gs', what).name = last'.ret
        /\ (isClassOrModule(gs, what) /\ exists(singleton)) =>
               /\ MovedToSmallestFree(singleton, dataAllowingNone(gs, singleton).name)
               /\ lookupSingletonClass(gs', what) = singleton
        /\ RecordsKept
JustRenamed == last'.op = "mangleRenameSymbol" /\ last'.status = "ok"

\* every renamed symbol of the owner is found by lookupSymbolWithFlags on the
\* original name when its own flags are asked for
Reached(g, pg, owner, x) ==
    \A n \in Held(g, pg, owner, x) :
        LET s == findMember(g, owner, lookupNameUnique(g, pg, "MangleRename", x, n).ret)
            r == lookupSymbolWithFlags(g, pg, owner, x, dataAllowingNone(g, s).flags)
        IN  exists(r.ret) /\ dataAllowingNone(g, s).flags \subseteq dataAllowingNone(g, r.ret).flags

BelowLargest(g, pg, sym) ==
    LET nm == NameAt(g, dataAllowingNone(g, sym).name)
    IN  /\ nm.kind = "UNIQUE" /\ nm.uniqueNameKind = "MangleRename"
        /\ \E n \in Held(g, pg, dataAllowingNone(g, sym).owner, nm.original) : n > nm.num
RenamesBelowLargest(g, pg, what) ==
    \/ BelowLargest(g, pg, what)
    \/ /\ isClassOrModule(g, what) /\ exists(lookupSingletonClass(g, what))
       /\ BelowLargest(g, pg, lookupSingletonClass(g, what))

Accounted(g, k, m) ==
    \/ m = superClass(g, k)
    \/ (exists(superClass(g, k)) /\ derivesFrom(g, superClass(g, k), m))
    \/ Contains(mixins(g, k), m)

\* every class whose list the step rewrote still derives from each mixin
\* of its declared list
StillDerives ==
    \A k \in Latched(gs') \ Latched(gs) :
        \A i \in 1..Len(mixins(gs, k)) :
            /\ derivesFrom(gs', k, mixins(gs, k)[i])
            /\ Accounted(gs', k, mixins(gs, k)[i])

\* C39: after computeClassLinearization rewrites the mixin list of a class,
\* the class still derives from every mixin of its declared list: each is
\* its superclass, or derived from by its superclass, or in the resolved
\* list; the check "no longer derives from" of the debug build never fails
C39_StillDerives ==
    [][(pc = "ready" /\ last'.op \in LinOps)
       => (last'.status # "no_longer_derives" /\ StillDerives)]_vars

\* a class not yet linearized declares a module that its superclass derives
\* from; the rewrite leaves it out of the resolved list and the class
\* derives from it through the superclass
C39_Witness ==
    /\ pc = "ready"
    /\ \E k \in UserClasses(gs) \ Latched(gs) :
           LET r == computeClassLinearization(gs, {}, k, {})
           IN  /\ r.status = "ok"
               /\ \E i \in 1..Len(mixins(gs, k)) :
                      /\ ~Contains(mixins(r.g, k), mixins(gs, k)[i])
                      /\ mixins(gs, k)[i] # superClass(gs, k)
                      /\ derivesFrom(r.g, superClass(gs, k), mixins(gs, k)[i])
                      /\ derivesFrom(r.g, k, mixins(gs, k)[i])


\* ---- the superclass graph after finalizeAncestors ----

\* k is on the superclass chain that starts at from
RECURSIVE OnSuperChain(_, _, _, _)
OnSuperChain(g, from, k, fuel) ==
    /\ exists(from)
    /\ fuel > 0
    /\ (from = k \/ OnSuperChain(g, superClass(g, from), k, fuel - 1))
\* no class is on its own superclass chain
SuperAcyclic(g) ==
    \A k \in Classes(g) : ~OnSuperChain(g, superClass(g, k), k, Len(g.classAndModules))
PassEnds == last'.status # "hang"
NoCycleCreated ==
    /\ SuperAcyclic(gs) => SuperAcyclic(gs')
    /\ \A e \in last'.diags : ~e.derives
AttachedFinalizedFirst == last'.status # "attached_todo"

\* C40: finalizeAncestors ends although singleton classes are appended while
\* it iterates; an acyclic superclass graph is acyclic after it and no
\* superclass it assigns derives from the symbol it is assigned to; no
\* singleton class is processed while the superclass of its attached class
\* is the placeholder todo
C40_AncestorsFinalized ==
    [][(pc = "ready" /\ last'.op = "finalizeAncestors")
       => (PassEnds /\ NoCycleCreated /\ AttachedFinalizedFirst)]_vars

\* the part of C40 about ending and cycles
C40_NoCycleCreated ==
    [][(pc = "ready" /\ last'.op = "finalizeAncestors") => (PassEnds /\ NoCycleCreated)]_vars

\* a pass that returned after it appended a singleton class and assigned it
\* as a superclass
C40_Witness ==
    /\ last.op = "finalizeAncestors"
    /\ last.status = "ok"
    /\ \E e \in last.diags :
           /\ Keepers(gs, e.to) # {}
           /\ e.to.idx > e.sym.idx
           /\ Keepers(gs, e.sym) # {}

====
